---- MODULE Spec2Model ----
(***************************************************************************)
(* Verification-and-remediation loop of the browser error debugging        *)
(* server: the dual-backend browser controller, the error detector, the    *)
(* UI validator, the test runner and the fix-and-retest tool handlers.     *)
(***************************************************************************)
EXTENDS Integers, Sequences, FiniteSets, TLC

VARIABLES
    limits,          \* the bounds of the behaviour: error events, rules, features, tools, null rules
    cfgMax,          \* config.test.maxRetryAttempts (loadConfig, parseInt of the environment)
    browser,         \* BrowserErrorDebuggingServer.browser: "null" | "set"
    cdpClient,       \* BrowserControllerImpl.cdpClient # null
    playwrightClient,\* BrowserControllerImpl.playwrightClient # null
    useCDP,          \* BrowserControllerImpl.useCDP
    cdpErrors,       \* CDPController.errors
    pwErrors,        \* PlaywrightController.errors
    page,            \* the web application under test: "clean" | "faulty" | "fixed"
    tool,            \* the tool call in flight
    args,            \* the arguments of the call: args.maxIterations
    pc,              \* position of the tool handler
    features,        \* args.feature / args.features: the uiRules of each feature
    featIdx,         \* index of the feature the suite is at
    maxIterations,   \* the handler's local maxIterations
    iteration,       \* the handler's local iteration
    lastResult,      \* the handler's local lastResult
    fixResult,       \* the FixResult of the last fixError call
    fixHistory,      \* handleBuildAndTestFeature's fixHistory
    results,         \* handleRunFeatureSuite's results
    success,         \* handleRunFeatureSuite's success flag
    report,          \* the response the handler returned
    tpc,             \* position of TestRunner.testFeature
    rules,           \* feature.uiRules of the pass in progress
    collected,       \* the ErrorCollection detectAllErrors returned to testFeature
    ruleIdx,         \* validateMultiple's position in the rule list
    uiErrors,        \* validateMultiple's errors
    tfResult,        \* the TestResult testFeature returned
    lastCollection,  \* waitForErrors' lastCollection
    polls,           \* rounds of waitForErrors' loop so far
    pollLog,         \* the collection each detectAllErrors call of waitForErrors returned
    nextId,          \* identity of the next error event of the page
    pushed,          \* the errors pushed into the buffer since the pass's navigation
    atDetect,        \* the buffer when detectAllErrors was called, then what was pushed while it ran
    genOutcome,      \* what the Fix Generator did in the last fixError call
    passes,          \* verification passes (testFeature calls) of the current loop
    fixCalls,        \* fixError calls of the current loop
    call,            \* the controller call a direct client is awaiting: "none" | "navigate" | "evaluate"
    ret,             \* what the last controller call of a direct client did and returned
    closed,          \* close() has been called on the controller
    chosen,          \* the backend the first successful initialize() activated
    stale,           \* the errors that were buffered when navigate was called
    ruleResults,     \* the validateInteraction calls of validateMultiple, with their results
    thrown,          \* the step of testFeature whose exception reached its catch branch
    file,            \* the content of the file a fix names, as characters
    fileBefore,      \* the content of that file when applyFix was called
    lines,           \* applyFix's lines
    fpc,             \* position of GeminiClient.applyFix
    lastLine,        \* the line of the change applyFix's loop took last (fix.changes is sorted)
    log,             \* the changes applyFix's loop has taken: the line and what it found there
    expect,          \* the file's lines, each set to the newCode of the changes that found
                     \* their oldCode there
    fret,            \* what applyFix returned
    uiRule,          \* the UIValidationRule a script is built for
    script,          \* the script validateInteraction built for it
    mpc,             \* position of DevServerManager.ensureServerRunning
    serverProcess,   \* DevServerManager.serverProcess: the process held, 0 for null
    isRunning,       \* DevServerManager.status.isRunning
    live,            \* whether the dev server answers the liveness probe
    lastProbe,       \* whether the last probe's HEAD request got an ok response
    waited,          \* rounds of waitForServer's loop so far
    spawns,          \* start commands spawned by the ensureServerRunning call in progress
    procs,           \* the processes the manager spawned: "none", "running" or "exiting"
    kpc,             \* position of the signal handler's cleanup
    errs,            \* the source of each error of the collection fixError is given
    given,           \* the file context fixError passed to generateFix
    rpc,             \* position of TestRunner.testFeatureWithRetry
    maxAttempts,     \* testFeatureWithRetry's argument maxAttempts
    attempts,        \* testFeatureWithRetry's attempts
    attempt,         \* testFeatureWithRetry's loop counter i
    retryResult,     \* testFeatureWithRetry's lastResult, and what it returned
    retryLog,        \* what testFeatureWithRetry did: each pass and each pause
    atCall,          \* the buffer when the capture-errors call arrived
    inits,           \* the initialize calls the server made: what each connected
    other,           \* position of the verification pass of a second tool call in flight
    ended            \* the suite's features whose loops are over: whether each ended in success

ctlVars == <<browser, cdpClient, playwrightClient, useCDP, cdpErrors, pwErrors>>
callVars == <<tool, args, pc, features, featIdx, maxIterations, iteration, lastResult,
              fixResult, fixHistory, results, success, report>>
passVars == <<tpc, rules, collected, ruleIdx, uiErrors, tfResult>>
waitVars == <<lastCollection, polls, pollLog>>
obsVars == <<nextId, pushed, atDetect, genOutcome, passes, fixCalls>>
apiVars == <<call, ret, closed, chosen, stale>>
traceVars == <<ruleResults, thrown>>
applyVars == <<file, fileBefore, lines, fpc, lastLine, log, expect, fret>>
scriptVars == <<uiRule, script>>
serverVars == <<mpc, serverProcess, isRunning, live, lastProbe, waited, spawns, procs, kpc>>
callsVars == <<atCall, inits, other, ended>>
unitVars == <<errs, given, rpc, maxAttempts, attempts, attempt, retryResult, retryLog>>
auxVars == <<applyVars, scriptVars, unitVars, serverVars, callsVars>>
vars == <<limits, cfgMax, auxVars, apiVars, traceVars, ctlVars, page, callVars, passVars, waitVars, obsVars>>

(***************************************************************************)
(* Bounds of the model.                                                    *)
(***************************************************************************)
MaxArgHalves == 4    \* the largest args.maxIterations tried, in halves (4 = 2.0)
MaxCfg == 2          \* the largest configured MAX_RETRY_ATTEMPTS tried
MaxRules == 2        \* the longest uiRules list tried in a single verification pass
MaxPush == 2         \* error events of the page per pass tried in a single pass
MaxLoopRules == 1    \* the longest uiRules list tried in a remediation loop
MaxLoopPush == 1     \* error events of the page per pass tried in a remediation loop
MaxFeatures == 2     \* the longest suite tried
MaxPolls == 2        \* rounds of waitForErrors' polling loop tried
MaxCtlPush == 2      \* error events of the page tried in one session of a direct client

(***************************************************************************)
(* JavaScript numbers.  A number is kept in halves (h = 2 * value) so that *)
(* a fractional maxIterations can be told from an integer one; NaN is what *)
(* parseInt returns for a non-numeric string, undefined an absent argument.*)
(***************************************************************************)
Num(h) == [k |-> "num", h |-> h]
Int2Num(n) == Num(2 * n)
NaN == [k |-> "nan", h |-> 0]
Undefined == [k |-> "undef", h |-> 0]

\* JavaScript truthiness of a number-or-undefined.
Truthy(x) == x.k = "num" /\ x.h # 0

\* a || b
OrElse(a, b) == IF Truthy(a) THEN a ELSE b

\* The loop guard written with <= : one pass too many.
LessThanOffByOne(i, m) == m.k = "num" /\ 2 * i <= m.h

\* iteration < maxIterations, with an integer on the left
LessThan(i, m) == m.k = "num" /\ 2 * i < m.h

\* iteration >= maxIterations, with an integer on the left
AtLeast(i, m) == m.k = "num" /\ 2 * i >= m.h

IsInteger(m) == m.k = "num" /\ m.h % 2 = 0

ArgMaxValues == {Undefined} \cup {Num(h) : h \in (-2)..MaxArgHalves}
CfgMaxValues == {NaN} \cup {Int2Num(n) : n \in 0..MaxCfg}

(***************************************************************************)
(* Errors and error collections.                                           *)
(***************************************************************************)
ErrorTypes == {"console", "network", "react", "ui"}

Err(t, i) == [type |-> t, id |-> i]

RECURSIVE Filter(_, _)
Filter(s, t) ==
    IF s = <<>> THEN <<>>
    ELSE IF Head(s).type = t THEN <<Head(s)>> \o Filter(Tail(s), t)
    ELSE Filter(Tail(s), t)

RECURSIVE Count(_, _)
Count(s, t) ==
    IF s = <<>> THEN 0
    ELSE (IF Head(s).type = t THEN 1 ELSE 0) + Count(Tail(s), t)

RECURSIVE Occurrences(_, _)
Occurrences(s, e) ==
    IF s = <<>> THEN 0
    ELSE (IF Head(s) = e THEN 1 ELSE 0) + Occurrences(Tail(s), e)

Range(s) == {s[i] : i \in 1..Len(s)}

\* The types of s in the order of their first occurrence (the key order of byType).
RECURSIVE TypeOrder(_, _)
TypeOrder(s, seen) ==
    IF s = <<>> THEN <<>>
    ELSE IF Head(s).type \in seen THEN TypeOrder(Tail(s), seen)
    ELSE <<Head(s).type>> \o TypeOrder(Tail(s), seen \cup {Head(s).type})

\* ErrorDetector.generateSummary: the text, kept as what it says.
\*   kind "none":   'No errors detected'
\*   kind "found":  'Found <total> error(s): <count> <type> error(s), ...'
\*   kind "failed": 'Test execution failed: <message>'
\*   uiFailed n > 0: the text is followed by '. UI validation failed: <n> error(s)'
generateSummary(errors) ==
    IF Len(errors) = 0
    THEN [kind |-> "none", total |-> 0, parts |-> <<>>, uiFailed |-> 0]
    ELSE LET order == TypeOrder(errors, {})
         IN [kind |-> "found",
             total |-> Len(errors),
             parts |-> [i \in 1..Len(order) |->
                          [count |-> Count(errors, order[i]), type |-> order[i]]],
             uiFailed |-> 0]

NoCollection == [errors |-> <<>>, hasErrors |-> FALSE,
                 summary |-> [kind |-> "none", total |-> 0, parts |-> <<>>, uiFailed |-> 0]]

NoResult == [success |-> FALSE, errors |-> NoCollection]

(***************************************************************************)
(* BrowserControllerImpl and its two backends.                             *)
(***************************************************************************)
CdpActive == useCDP /\ cdpClient
PwActive == ~CdpActive /\ playwrightClient

\* The buffer the controller's captureErrors reads.
Buffer == IF CdpActive THEN cdpErrors ELSE IF PwActive THEN pwErrors ELSE <<>>

\* A capture that leaves the buffer as it was.
NotDrained(buf) == buf

\* CDPController.captureErrors / PlaywrightController.captureErrors: the buffer after a drain.
Drained(buf) == <<>>

\* A navigation that keeps the buffer.
NotCleared(buf) == buf

\* CDPController.navigate / PlaywrightController.navigate: this.errors = []
Cleared(buf) == <<>>

\* The backend chosen by the flag alone.
ActiveByFlag == IF useCDP THEN "cdp" ELSE "playwright"

\* The backend navigate, captureErrors and evaluate dispatch to.
Active == IF CdpActive THEN "cdp" ELSE IF PwActive THEN "playwright" ELSE "none"

\* BrowserControllerImpl.getPage: only the Playwright client has a page.
getPage == IF playwrightClient THEN "page" ELSE "null"

\* The page a call starts on: one that works, or one with faults.  ("fixed" is a faulty
\* page that works after a fix.)
PageStates == {"clean", "faulty"}

\* Assignment of the active backend's buffer.
SetBuffer(b) ==
    /\ cdpErrors' = IF CdpActive THEN b ELSE cdpErrors
    /\ pwErrors' = IF PwActive THEN b ELSE pwErrors

\* A subscription callback of the active backend (Runtime.exceptionThrown, Log.entryAdded,
\* Network.responseReceived, Network.loadingFailed; page.on console / pageerror /
\* requestfailed / response) pushes one error.  Callbacks run only while the pass is
\* suspended on the browser: during the page load and the wait, during the probe's
\* evaluate, and during a rule's evaluate.  A direct client of the controller is
\* suspended between its calls and while it awaits one.  handleCaptureErrors is suspended
\* while it awaits ensureServerRunning and its own navigate.
Suspended ==
    \/ tpc \in {"loading", "probe"}
    \/ pc \in {"waitCalled", "waitSleep"}
    \/ tpc = "validate" /\ ruleIdx <= Len(rules) /\ getPage # "null" /\ rules[ruleIdx] # 0
    \/ "controller" \in limits.tools /\ (CdpActive \/ PwActive)
    \/ tool = "capture_errors" /\ pc \in {"ensureServer", "captureLoading"}
       /\ (CdpActive \/ PwActive)

PushError(t) ==
    /\ Suspended
    /\ page # "clean"
    /\ nextId <= limits.push
    /\ SetBuffer(Append(Buffer, Err(t, nextId)))
    /\ nextId' = nextId + 1
    /\ pushed' = Append(pushed, Err(t, nextId))
    /\ UNCHANGED <<waitVars, limits, cfgMax, auxVars, apiVars, traceVars, browser, cdpClient, playwrightClient, useCDP, page,
                   callVars, passVars, atDetect, genOutcome, passes, fixCalls>>

(***************************************************************************)
(* BrowserControllerImpl as a direct client drives it: initialize,         *)
(* navigate, captureErrors, evaluate and close, one call at a time.        *)
(***************************************************************************)
NoReturn == [op |-> "none", outcome |-> "none", value |-> <<>>, backend |-> "none",
             env |-> [cdp |-> FALSE, pw |-> FALSE], arrived |-> <<>>, again |-> FALSE,
             prev |-> <<>>]

Returned(op, outcome, backend) == [NoReturn EXCEPT !.op = op, !.outcome = outcome,
                                                   !.backend = backend]

\* initialize without the catch branch.
ConnectsNoFallback(cdpOk, pwOk) == IF cdpOk THEN "cdp" ELSE "throws"

\* initialize: cdp.connect() succeeds, or playwright.launch() does in the catch branch,
\* or the launch throws out of initialize.
Connects(cdpOk, pwOk) == IF cdpOk THEN "cdp" ELSE IF pwOk THEN "playwright" ELSE "throws"

\* A close that keeps the client.
NotReleased(client) == client

\* close: this.cdpClient = null / this.playwrightClient = null
Released(client) == FALSE

\* initialize(): a new backend object, with an empty buffer, is stored in its field.
C_Initialize ==
    /\ "controller" \in limits.tools
    /\ call = "none"
    /\ \E cdpOk \in BOOLEAN, pwOk \in BOOLEAN :
         LET b == Connects(cdpOk, pwOk)
         IN /\ ret' = [Returned("initialize", IF b = "throws" THEN "threw" ELSE "ok", b)
                          EXCEPT !.env = [cdp |-> cdpOk, pw |-> pwOk]]
            /\ cdpClient' = IF b = "cdp" THEN TRUE ELSE cdpClient
            /\ cdpErrors' = IF b = "cdp" THEN <<>> ELSE cdpErrors
            /\ playwrightClient' = IF b = "playwright" THEN TRUE ELSE playwrightClient
            /\ pwErrors' = IF b = "playwright" THEN <<>> ELSE pwErrors
            /\ useCDP' = IF b = "cdp" THEN TRUE ELSE IF b = "playwright" THEN FALSE ELSE useCDP
            /\ chosen' = IF chosen = "none" /\ b # "throws" THEN b ELSE chosen
            /\ pushed' = IF b = "throws" THEN pushed ELSE <<>>
            /\ IF b = "throws" THEN UNCHANGED page ELSE page' \in PageStates
    /\ UNCHANGED <<limits, cfgMax, auxVars, call, closed, stale, traceVars, browser, callVars, passVars,
                   waitVars, nextId, atDetect, genOutcome, passes, fixCalls>>

\* navigate(url): throws when no backend is set; else the active backend clears its buffer
\* and the load is awaited.
C_Navigate ==
    /\ "controller" \in limits.tools
    /\ call = "none"
    /\ IF Active = "none"
       THEN /\ ret' = Returned("navigate", "threw", "none")
            /\ UNCHANGED <<call, stale, cdpErrors, pwErrors, pushed, page>>
       ELSE /\ call' = "navigate"
            /\ stale' = stale \cup Range(Buffer)
            /\ SetBuffer(Cleared(Buffer))
            /\ pushed' = <<>>
            /\ page' \in PageStates
            /\ UNCHANGED ret
    /\ UNCHANGED <<limits, cfgMax, auxVars, closed, chosen, traceVars, browser, cdpClient,
                   playwrightClient, useCDP, callVars, passVars, waitVars, nextId, atDetect,
                   genOutcome, passes, fixCalls>>

\* evaluate(script): throws when no backend is set; else the script is sent to the page.
C_Evaluate ==
    /\ "controller" \in limits.tools
    /\ call = "none"
    /\ IF Active = "none"
       THEN /\ ret' = Returned("evaluate", "threw", "none")
            /\ UNCHANGED call
       ELSE /\ call' = "evaluate"
            /\ UNCHANGED ret
    /\ UNCHANGED <<limits, cfgMax, auxVars, closed, chosen, stale, traceVars, ctlVars, page, callVars,
                   passVars, waitVars, obsVars>>

\* The awaited navigation or evaluation settles: it resolves, or the page makes it reject.
C_Settle ==
    /\ call # "none"
    /\ \E outcome \in IF page = "clean" THEN {"ok"} ELSE {"ok", "threw"} :
         ret' = Returned(call, outcome, Active)
    /\ call' = "none"
    /\ UNCHANGED <<limits, cfgMax, auxVars, closed, chosen, stale, traceVars, ctlVars, page, callVars,
                   passVars, waitVars, obsVars>>

\* captureErrors(): the active backend returns a copy of its buffer and empties it; with no
\* backend set the result is [].
C_CaptureErrors ==
    /\ "controller" \in limits.tools
    /\ call = "none"
    /\ ret' = [Returned("captureErrors", "ok", Active)
                 EXCEPT !.value = Buffer,
                        !.arrived = pushed,
                        !.again = (ret.op = "captureErrors" /\ pushed = <<>>),
                        !.prev = IF ret.op = "captureErrors" THEN ret.value ELSE <<>>]
    /\ SetBuffer(Drained(Buffer))
    /\ pushed' = <<>>
    /\ UNCHANGED <<limits, cfgMax, auxVars, call, closed, chosen, stale, traceVars, browser, cdpClient,
                   playwrightClient, useCDP, page, callVars, passVars, waitVars, nextId,
                   atDetect, genOutcome, passes, fixCalls>>

\* close(): each client that is set is closed and its field set to null.
C_Close ==
    /\ "controller" \in limits.tools
    /\ call = "none"
    /\ cdpClient' = Released(cdpClient)
    /\ playwrightClient' = Released(playwrightClient)
    /\ cdpErrors' = <<>>
    /\ pwErrors' = <<>>
    /\ closed' = TRUE
    /\ chosen' = "none"
    /\ pushed' = <<>>
    /\ ret' = [Returned("close", "ok", "none") EXCEPT !.again = (ret.op = "close")]
    /\ UNCHANGED <<limits, cfgMax, auxVars, call, stale, traceVars, browser, useCDP, page, callVars,
                   passVars, waitVars, nextId, atDetect, genOutcome, passes, fixCalls>>

(***************************************************************************)
(* TestRunner.testFeature, with ErrorDetector.detectAllErrors and          *)
(* UIValidator.validateMultiple in line.                                   *)
(***************************************************************************)
\* A catch branch that returns an empty collection.
ExceptionResultEmpty == [success |-> FALSE, errors |-> NoCollection]

\* The catch branch of testFeature: one synthetic console error.
ExceptionResult ==
    [success |-> FALSE,
     errors |-> [errors |-> <<Err("console", 0)>>,
                 hasErrors |-> TRUE,
                 summary |-> [kind |-> "failed", total |-> 0, parts |-> <<>>,
                              uiFailed |-> 0]]]

\* browser.navigate(feature.url): the buffer is cleared, then the page loads; navigation
\* throws when no backend is set or when the load fails.
TF_Navigate ==
    /\ tpc = "start"
    /\ nextId' = 1
    /\ pushed' = <<>>
    /\ atDetect' = <<>>
    /\ IF ~CdpActive /\ ~PwActive
       THEN /\ tpc' = "ret"
            /\ thrown' = "navigate"
            /\ tfResult' = ExceptionResult
            /\ UNCHANGED <<cdpErrors, pwErrors>>
       ELSE /\ SetBuffer(Cleared(Buffer))
            /\ \/ tpc' = "loading" /\ UNCHANGED <<tfResult, thrown>>
               \/ /\ page # "clean"
                  /\ tpc' = "ret"
                  /\ thrown' = "navigate"
                  /\ tfResult' = ExceptionResult
    /\ UNCHANGED <<waitVars, limits, cfgMax, auxVars, apiVars, ruleResults, browser, cdpClient, playwrightClient, useCDP, page,
                   callVars, rules, collected, ruleIdx, uiErrors, genOutcome, passes, fixCalls>>

\* detectConsoleErrors, detectNetworkErrors, detectUIErrors: a drain and a filter each.
detectConsoleErrors(buf) == Filter(buf, "console")
detectNetworkErrors(buf) == Filter(buf, "network")
detectUIErrors(buf) == Filter(buf, "ui")

\* detectAllErrors up to the probe: detectConsoleErrors and detectNetworkErrors run back to
\* back, with no suspension on the browser between them.
TF_DetectBuffered ==
    /\ tpc = "loading" \/ (tpc = "idle" /\ pc = "waitDetect")
    /\ LET b0 == Buffer
           consoleErrors == detectConsoleErrors(b0)
           b1 == Drained(b0)
           networkErrors == detectNetworkErrors(b1)
           b2 == Drained(b1)
       IN /\ SetBuffer(b2)
          /\ collected' = [NoCollection EXCEPT !.errors = consoleErrors \o networkErrors]
          /\ atDetect' = b0
    /\ tpc' = "probe"
    /\ UNCHANGED <<waitVars, limits, cfgMax, auxVars, apiVars, traceVars, browser, cdpClient, playwrightClient, useCDP, page,
                   callVars, rules, ruleIdx, uiErrors, tfResult, nextId, pushed,
                   genOutcome, passes, fixCalls>>

\* The flag computed with > 1: a single error goes unflagged.
HasErrorsMoreThanOne(allErrors) == Len(allErrors) > 1

\* allErrors.length > 0
HasErrors(allErrors) == Len(allErrors) > 0

\* detectAllErrors from the probe on: detectReactErrors returns what the probe found (or
\* nothing when evaluate throws), detectUIErrors drains once more, and the collection is built.
TF_DetectProbe ==
    /\ tpc = "probe"
    /\ \E reactErrors \in IF page = "clean" \/ ~(CdpActive \/ PwActive) THEN {<<>>}
                           ELSE {<<>>, <<Err("react", 0)>>} :
         LET b0 == Buffer
             uiErrs == detectUIErrors(b0)
             allErrors == collected.errors \o reactErrors \o uiErrs
         IN /\ SetBuffer(Drained(b0))
            /\ atDetect' = atDetect \o b0
            /\ collected' = [errors |-> allErrors,
                             hasErrors |-> HasErrors(allErrors),
                             summary |-> generateSummary(allErrors)]
    /\ tpc' = IF tool = "waitForErrors" THEN "detected" ELSE "validate"
    /\ ruleIdx' = 1
    /\ uiErrors' = <<>>
    /\ UNCHANGED <<waitVars, limits, cfgMax, auxVars, apiVars, traceVars, browser, cdpClient, playwrightClient, useCDP, page,
                   callVars, rules, tfResult, nextId, pushed, genOutcome, passes, fixCalls>>

\* UIValidator.validateInteraction: the outcome of the in-page script for one rule.
RuleOutcomes == IF page = "clean" THEN {"ok"} ELSE {"ok", "notfound", "throws", "evalfails"}

\* validateInteraction without the catch branch: an evaluate that throws leaves no result.
validateInteractionNoCatch(rule, outcome) ==
    IF getPage = "null" \/ outcome = "notfound" \/ outcome = "throws"
    THEN [success |-> FALSE, error |-> <<Err("ui", rule)>>, raised |-> FALSE]
    ELSE IF outcome = "evalfails"
    THEN [success |-> FALSE, error |-> <<>>, raised |-> TRUE]
    ELSE [success |-> TRUE, error |-> <<>>, raised |-> FALSE]

\* The result for a rule: no page (the CDP backend has none), the script finds no element
\* ("notfound"), the action throws in the page ("throws") or evaluate itself fails
\* ("evalfails") give success: false with a UIError whose element and action are the
\* rule's; otherwise success: true with no error.  raised: the call threw.
validateInteraction(rule, outcome) ==
    IF getPage = "null" \/ outcome # "ok"
    THEN [success |-> FALSE, error |-> <<Err("ui", rule)>>, raised |-> FALSE]
    ELSE [success |-> TRUE, error |-> <<>>, raised |-> FALSE]

\* The loop left at the first failing rule.
NextRuleStopAtFailure(idx, ok, n) == IF ok THEN idx + 1 ELSE n + 1

\* for (const rule of rules): the position after a rule, whatever its result.
NextRule(idx, ok, n) == idx + 1

\* One round of validateMultiple's loop.  A rule that is null makes validateInteraction
\* throw from its own catch block (rule.selector), out of validateMultiple and into the
\* catch branch of testFeature.
TF_ValidateRule ==
    /\ tpc = "validate"
    /\ ruleIdx <= Len(rules)
    /\ IF rules[ruleIdx] = 0
       THEN /\ tpc' = "ret"
            /\ thrown' = "validate"
            /\ tfResult' = ExceptionResult
            /\ UNCHANGED <<uiErrors, ruleResults, ruleIdx>>
       ELSE /\ \E outcome \in RuleOutcomes :
                 LET result == validateInteraction(rules[ruleIdx], outcome)
                     ok == result.success
                 IN /\ uiErrors' = IF ~ok /\ result.error # <<>>
                                   THEN Append(uiErrors, result.error[1])
                                   ELSE uiErrors
                    /\ ruleResults' = Append(ruleResults,
                                             [rule |-> rules[ruleIdx], success |-> ok,
                                              outcome |-> outcome, page |-> getPage,
                                              error |-> result.error,
                                              raised |-> result.raised])
                    /\ ruleIdx' = NextRule(ruleIdx, ok, Len(rules))
            /\ UNCHANGED <<tpc, thrown, tfResult>>
    /\ UNCHANGED <<waitVars, limits, cfgMax, auxVars, apiVars, ctlVars, page, callVars, rules, collected,
                   obsVars>>

\* The verdict taken from the UI validation alone.
VerdictUIOnly(hasErrors, uiValidationSuccess) == uiValidationSuccess

\* const success = !errors.hasErrors && uiValidationSuccess
Verdict(hasErrors, uiValidationSuccess) == ~hasErrors /\ uiValidationSuccess

\* The ErrorCollection after the UI errors are appended to it.
AppendUIErrors(errors, uiErrs) ==
    [errors |-> errors.errors \o uiErrs,
     hasErrors |-> TRUE,
     summary |-> [errors.summary EXCEPT !.uiFailed = Len(uiErrs)]]

\* What validateMultiple returns for the errors its loop collected.
validateMultiple(errors) == [success |-> Len(errors) = 0, errors |-> errors]

\* The end of testFeature: the result of validateMultiple is folded in, the verdict computed.
TF_Return ==
    /\ tpc = "validate"
    /\ ruleIdx > Len(rules)
    /\ LET uiSuccess == validateMultiple(uiErrors).success
           uiValidationSuccess == IF Len(rules) > 0 THEN uiSuccess ELSE TRUE
           errors == IF Len(rules) > 0 /\ ~uiSuccess
                     THEN AppendUIErrors(collected, uiErrors) ELSE collected
       IN tfResult' = [success |-> Verdict(errors.hasErrors, uiValidationSuccess),
                       errors |-> errors]
    /\ tpc' = "ret"
    /\ UNCHANGED <<waitVars, limits, cfgMax, auxVars, apiVars, traceVars, ctlVars, page, callVars, rules, collected, ruleIdx, uiErrors,
                   obsVars>>

(***************************************************************************)
(* ErrorDetector.waitForErrors, called on the detector by a client.        *)
(***************************************************************************)
\* let lastCollection = { errors: [], hasErrors: false, summary: 'No errors' }
InitialCollection == [errors |-> <<>>, hasErrors |-> FALSE,
                      summary |-> [kind |-> "noerrors", total |-> 0, parts |-> <<>>,
                                   uiFailed |-> 0]]

\* waitForErrors is called.  The state "waitCalled" stands for the time up to the call, in
\* which the page may have filled the buffer.
W_Call ==
    /\ tool = "idle"
    /\ "waitForErrors" \in limits.tools
    /\ tool' = "waitForErrors"
    /\ pc' = "waitCalled"
    /\ lastCollection' = InitialCollection
    /\ polls' = 0
    /\ pollLog' = <<>>
    /\ page' \in PageStates
    /\ nextId' = IF Buffer = <<>> THEN 1 ELSE nextId
    /\ UNCHANGED <<limits, cfgMax, auxVars, apiVars, traceVars, ctlVars, args, features, featIdx, maxIterations,
                   iteration, lastResult, fixResult, fixHistory, results, success, report,
                   passVars, pushed, atDetect, genOutcome, passes, fixCalls>>

\* while (Date.now() - startTime < timeout): the timeout has elapsed and lastCollection is
\* returned, or detectAllErrors is called.
W_Poll ==
    /\ pc \in {"waitCalled", "waitPoll"}
    /\ \/ /\ report' = <<lastCollection>>
          /\ pc' = "done"
          /\ UNCHANGED polls
       \/ /\ polls < MaxPolls
          /\ polls' = polls + 1
          /\ pc' = "waitDetect"
          /\ UNCHANGED report
    /\ UNCHANGED <<limits, cfgMax, auxVars, apiVars, traceVars, ctlVars, page, tool, args, features, featIdx,
                   maxIterations, iteration, lastResult, fixResult, fixHistory, results,
                   success, passVars, lastCollection, pollLog, obsVars>>

\* A test that takes every collection as one with errors.
KeepsPollingAlways(collection) == TRUE

\* if (collection.hasErrors)
KeepsPolling(collection) == collection.hasErrors

\* detectAllErrors returned: a collection with errors is kept and the loop sleeps 500 ms,
\* one without ends the loop.
W_Detected ==
    /\ pc = "waitDetect"
    /\ tpc = "detected"
    /\ tpc' = "idle"
    /\ pollLog' = Append(pollLog, collected)
    /\ IF KeepsPolling(collected)
       THEN /\ lastCollection' = collected
            /\ pc' = "waitSleep"
            /\ UNCHANGED report
       ELSE /\ report' = <<lastCollection>>
            /\ pc' = "done"
            /\ UNCHANGED lastCollection
    /\ UNCHANGED <<limits, cfgMax, auxVars, apiVars, traceVars, ctlVars, page, tool, args, features, featIdx,
                   maxIterations, iteration, lastResult, fixResult, fixHistory, results,
                   success, rules, collected, ruleIdx, uiErrors, tfResult, polls, obsVars>>

\* The 500 ms are over.
W_Wake ==
    /\ pc = "waitSleep"
    /\ pc' = "waitPoll"
    /\ UNCHANGED <<limits, cfgMax, auxVars, apiVars, traceVars, ctlVars, page, tool, args, features, featIdx,
                   maxIterations, iteration, lastResult, fixResult, fixHistory, results,
                   success, report, passVars, waitVars, obsVars>>

(***************************************************************************)
(* CursorIntegration.fixError.                                             *)
(***************************************************************************)
GenOutcomes == {"applied", "nofix", "notapplied", "exception"}

\* fixError without the check of applyFix's result.
fixErrorUnchecked(outcome) ==
    CASE outcome = "nofix" ->
           [success |-> FALSE, error |-> "Could not generate fix for the error", fix |-> FALSE]
      [] outcome = "exception" ->
           [success |-> FALSE, error |-> "exception message", fix |-> FALSE]
      [] OTHER ->
           [success |-> TRUE, error |-> "", fix |-> TRUE]

\* The FixResult for what the Fix Generator did: generateFix returned null, applyFix
\* returned false, a step threw, or the fix was applied.
fixError(outcome) ==
    CASE outcome = "nofix" ->
           [success |-> FALSE, error |-> "Could not generate fix for the error", fix |-> FALSE]
      [] outcome = "notapplied" ->
           [success |-> FALSE, error |-> "Failed to apply fix to file", fix |-> TRUE]
      [] outcome = "exception" ->
           [success |-> FALSE, error |-> "exception message", fix |-> FALSE]
      [] OTHER ->
           [success |-> TRUE, error |-> "", fix |-> TRUE]

NoFixResult == [success |-> TRUE, error |-> "", fix |-> FALSE]

(***************************************************************************)
(* GeminiClient.applyFix.  A file's content, a line and the oldCode and    *)
(* newCode of a change are strings: sequences of characters.               *)
(***************************************************************************)
RECURSIVE SeqsUpTo(_, _)
SeqsUpTo(S, n) ==
    IF n = 0 THEN {<<>>}
    ELSE LET shorter == SeqsUpTo(S, n - 1)
         IN shorter \cup {Append(q, x) : q \in {r \in shorter : Len(r) = n - 1}, x \in S}

MaxFileLen == 3
MaxOldLen == 2
MaxNewLen == 1
MaxLine == 3
MaxChanges == 2

FileChars == {"a", " ", "\n"}
Whitespace == {" ", "\n"}

\* content.split('\n')
RECURSIVE split(_)
split(s) ==
    IF \A i \in 1..Len(s) : s[i] # "\n" THEN <<s>>
    ELSE LET i == CHOOSE j \in 1..Len(s) : s[j] = "\n" /\ \A k \in 1..(j - 1) : s[k] # "\n"
         IN <<SubSeq(s, 1, i - 1)>> \o split(SubSeq(s, i + 1, Len(s)))

\* lines.join('\n')
RECURSIVE join(_)
join(ls) ==
    IF Len(ls) = 0 THEN <<>>
    ELSE IF Len(ls) = 1 THEN ls[1]
    ELSE ls[1] \o <<"\n">> \o join(Tail(ls))

\* String.prototype.trim
RECURSIVE trimStart(_)
trimStart(s) == IF s # <<>> /\ s[1] \in Whitespace THEN trimStart(Tail(s)) ELSE s

RECURSIVE trimEnd(_)
trimEnd(s) ==
    IF s # <<>> /\ s[Len(s)] \in Whitespace THEN trimEnd(SubSeq(s, 1, Len(s) - 1)) ELSE s

trim(s) == trimEnd(trimStart(s))

\* A test that lets every change through.
MatchesAlways(lineText, oldCode) == TRUE

\* lines[lineIndex].trim() === change.oldCode.trim()
Matches(lineText, oldCode) == trim(lineText) = trim(oldCode)

\* lineIndex >= 0 && lineIndex < lines.length, for lineIndex = change.line - 1
InRange(line, ls) == line - 1 >= 0 /\ line - 1 < Len(ls)

\* What a change found at its line: the line is outside the file, the line's trimmed
\* text is the change's oldCode ("equal"), it is the oldCode but for surrounding
\* whitespace ("trimequal"), or it is another text.
Finds(line, oldCode, ls) ==
    IF ~InRange(line, ls) THEN "outside"
    ELSE IF oldCode = trim(ls[line]) THEN "equal"
    ELSE IF trim(oldCode) = trim(ls[line]) THEN "trimequal"
    ELSE "differs"

\* applyFix is called for a file: existsSync and readFile succeed and the loop over the
\* sorted changes starts, or the file is missing or unreadable and applyFix returns false.
applyFix_Call ==
    /\ fpc = "idle"
    /\ \/ /\ fpc' = "loop"
          /\ lines' = split(file)
          /\ expect' = split(file)
          /\ lastLine' = MaxLine
          /\ UNCHANGED fret
       \/ /\ fpc' = "done"
          /\ fret' = FALSE
          /\ UNCHANGED <<lines, expect, lastLine>>
    /\ fileBefore' = file
    /\ log' = <<>>
    /\ UNCHANGED <<file, scriptVars, unitVars, serverVars, callsVars, limits, cfgMax,
                   apiVars, traceVars, ctlVars, page, callVars, passVars, waitVars, obsVars>>

\* One round of for (const change of fix.changes.sort((a, b) => b.line - a.line)): the
\* changes come in non-increasing line order; a change in range whose text matches sets
\* its line, any other is skipped.
applyFix_Change ==
    /\ fpc = "loop"
    /\ Len(log) < MaxChanges
    /\ \E line \in 0..lastLine, oldCode \in SeqsUpTo(FileChars, MaxOldLen),
          newCode \in SeqsUpTo(FileChars, MaxNewLen) :
         /\ lastLine' = line
         /\ log' = Append(log, [line |-> line, found |-> Finds(line, oldCode, lines)])
         /\ lines' = IF InRange(line, lines) /\ Matches(lines[line], oldCode)
                      THEN [lines EXCEPT ![line] = newCode]
                      ELSE lines
         /\ expect' = IF Finds(line, oldCode, lines) \in {"equal", "trimequal"}
                       THEN [expect EXCEPT ![line] = newCode]
                       ELSE expect
    /\ UNCHANGED <<file, fileBefore, fpc, fret, scriptVars, unitVars, serverVars, callsVars,
                   limits, cfgMax, apiVars, traceVars, ctlVars, page, callVars, passVars,
                   waitVars, obsVars>>

\* The loop is over: content = lines.join('\n') is written and applyFix returns true, or
\* writeFile throws and the catch branch returns false.
applyFix_Write ==
    /\ fpc = "loop"
    /\ \/ file' = join(lines) /\ fret' = TRUE
       \/ fret' = FALSE /\ UNCHANGED file
    /\ fpc' = "done"
    /\ UNCHANGED <<fileBefore, lines, lastLine, log, expect, scriptVars, unitVars, serverVars, callsVars,
                   limits, cfgMax, apiVars, traceVars, ctlVars, page, callVars,
                   passVars, waitVars, obsVars>>

(***************************************************************************)
(* DevServerManager: checkServerStatus, ensureServerRunning, startServer   *)
(* and waitForServer, and the dev server they probe and spawn.             *)
(***************************************************************************)
MaxWaitRounds == 3
MaxProcs == 2        \* start commands whose processes exist at the same time

\* The manager is suspended: on the probe's fetch, on the sleep of waitForServer, or
\* because no call is running.
ManagerAwaits == mpc \in {"idle", "probe", "poll", "sleep"}

\* A probe that always reports the server live.
checkServerStatusAlwaysLive(answers, ok) == TRUE

\* checkServerStatus: response.ok of the HEAD request, false when fetch throws (the
\* server does not answer within the 2 s of the abort signal).
checkServerStatus(answers, ok) == answers /\ ok

\* while (Date.now() - startTime < maxWait), after the given number of rounds.
WithinWait(rounds) == rounds < MaxWaitRounds

\* The processes spawn can create: a process runs, then has ended with its 'exit' event
\* still to be delivered, and is gone once the event has been delivered.
Procs == 1..MaxProcs
NoProcs == [i \in Procs |-> "none"]
Running == {i \in Procs : procs[i] = "running"}
Spawned == CHOOSE i \in Procs : procs[i] = "none" /\ \A j \in 1..(i - 1) : procs[j] # "none"

\* The signal handlers have not ended the server process.
Serving == kpc \in {"none", "closing"}

\* ensureServerRunning is called and awaits checkServerStatus.
M_Call ==
    /\ mpc = "idle"
    /\ mpc' = "probe"
    /\ waited' = 0
    /\ spawns' = 0
    /\ UNCHANGED <<serverProcess, isRunning, live, lastProbe, procs, kpc, applyVars,
                   scriptVars, unitVars, callsVars, limits, cfgMax, apiVars, traceVars, ctlVars, page,
                   callVars, passVars, waitVars, obsVars>>

\* The first probe returned.  if (isRunning) return this.status; otherwise startServer
\* spawns the start command unless a process is held, registers the 'exit' handler on
\* the new process, and waitForServer starts its loop with a probe.
M_Probe ==
    /\ mpc = "probe"
    /\ \E ok \in BOOLEAN :
         LET running == checkServerStatus(live, ok)
         IN /\ isRunning' = running
            /\ lastProbe' = (live /\ ok)
            /\ IF running
               THEN /\ mpc' = "returned"
                    /\ UNCHANGED <<serverProcess, procs, spawns>>
               ELSE /\ IF serverProcess # 0
                       THEN UNCHANGED <<serverProcess, procs, spawns>>
                       ELSE /\ \E i \in Procs : procs[i] = "none"
                            /\ serverProcess' = Spawned
                            /\ procs' = [procs EXCEPT ![Spawned] = "running"]
                            /\ spawns' = spawns + 1
                    /\ mpc' = IF WithinWait(0) THEN "poll" ELSE "failed"
    /\ UNCHANGED <<live, waited, kpc, applyVars, scriptVars, unitVars, callsVars, limits, cfgMax,
                   apiVars, traceVars, ctlVars, page, callVars, passVars, waitVars, obsVars>>

\* A probe of waitForServer's loop returned: the loop returns when the server is
\* running and sleeps for the check interval otherwise.
M_Poll ==
    /\ mpc = "poll"
    /\ \E ok \in BOOLEAN :
         LET running == checkServerStatus(live, ok)
         IN /\ isRunning' = running
            /\ lastProbe' = (live /\ ok)
            /\ mpc' = IF running THEN "returned" ELSE "sleep"
    /\ UNCHANGED <<serverProcess, live, waited, spawns, procs, kpc, applyVars, scriptVars, unitVars,
                   callsVars, limits, cfgMax, apiVars, traceVars, ctlVars, page, callVars,
                   passVars, waitVars, obsVars>>

\* The sleep is over: the loop goes on with the next probe while the wait is within
\* maxWait, and waitForServer throws ('Dev server did not start within ...') after it.
M_Wake ==
    /\ mpc = "sleep"
    /\ waited' = waited + 1
    /\ mpc' = IF WithinWait(waited + 1) THEN "poll" ELSE "failed"
    /\ UNCHANGED <<serverProcess, isRunning, live, lastProbe, spawns, procs, kpc, applyVars,
                   scriptVars, unitVars, callsVars, limits, cfgMax, apiVars, traceVars, ctlVars, page,
                   callVars, passVars, waitVars, obsVars>>

\* ensureServerRunning has returned this.status or thrown; the caller goes on.
M_Return ==
    /\ mpc \in {"returned", "failed"}
    /\ mpc' = "idle"
    /\ UNCHANGED <<serverProcess, isRunning, live, lastProbe, waited, spawns, procs, kpc,
                   applyVars, scriptVars, unitVars, callsVars, limits, cfgMax, apiVars, traceVars,
                   ctlVars, page, callVars, passVars, waitVars, obsVars>>

\* stopServer: the held process is killed and the handle and isRunning are cleared;
\* nothing happens when no process is held.  kill ends a process that runs; its 'exit'
\* event is delivered later.
stopServer ==
    IF serverProcess # 0
    THEN /\ procs' = [procs EXCEPT ![serverProcess] = "exiting"]
         /\ serverProcess' = 0
         /\ isRunning' = FALSE
    ELSE UNCHANGED <<procs, serverProcess, isRunning>>

\* A client calls stopServer while the manager is suspended.
M_Stop ==
    /\ ManagerAwaits
    /\ stopServer
    /\ UNCHANGED <<mpc, live, lastProbe, waited, spawns, kpc, applyVars, scriptVars, unitVars,
                   callsVars, limits, cfgMax, apiVars, traceVars, ctlVars, page, callVars,
                   passVars, waitVars, obsVars>>

\* The dev server (spawned by the manager or run by someone else) starts or stops
\* answering.
E_Server ==
    /\ ManagerAwaits
    /\ live' = ~live
    /\ UNCHANGED <<mpc, serverProcess, isRunning, lastProbe, waited, spawns, procs, kpc,
                   applyVars, scriptVars, unitVars, callsVars, limits, cfgMax, apiVars, traceVars,
                   ctlVars, page, callVars, passVars, waitVars, obsVars>>

\* A spawned process ends by itself.
E_Die ==
    /\ \E i \in Running : procs' = [procs EXCEPT ![i] = "exiting"]
    /\ live' \in {live, FALSE}
    /\ UNCHANGED <<mpc, serverProcess, isRunning, lastProbe, waited, spawns, kpc, applyVars,
                   scriptVars, unitVars, callsVars, limits, cfgMax, apiVars, traceVars, ctlVars, page,
                   callVars, passVars, waitVars, obsVars>>

\* The 'exit' event of a process that has ended is delivered: the handler registered
\* by startServer clears serverProcess and isRunning.
E_Exit ==
    /\ ManagerAwaits
    /\ \E i \in Procs :
         /\ procs[i] = "exiting"
         /\ procs' = [procs EXCEPT ![i] = "none"]
    /\ serverProcess' = 0
    /\ isRunning' = FALSE
    /\ UNCHANGED <<mpc, live, lastProbe, waited, spawns, kpc, applyVars, scriptVars, unitVars,
                   callsVars, limits, cfgMax, apiVars, traceVars, ctlVars, page, callVars,
                   passVars, waitVars, obsVars>>

(***************************************************************************)
(* The scripts UIValidator builds for browser.evaluate.  A script is a     *)
(* sequence of pieces: each character of the selector and of the value is  *)
(* a piece, each quote of the template is a piece, and each stretch of the *)
(* template between them is a piece.                                       *)
(***************************************************************************)
MaxSelectorLen == 2
MaxValueLen == 1

ScriptChars == {"a", "'", "\\"}
RuleActions == {"click", "type", "check", "wait", "hover"}

\* No rule: the value of uiRule while no script is being built.
NoRule == [selector |-> <<>>, action |-> "none", value |-> <<>>]
NoScript == [of |-> "none", text |-> <<>>]

\* getActionScript(rule); rule.value || '' is the value, the empty string included.
getActionScript(rule) ==
    CASE rule.action = "click" -> <<"element.click();">>
      [] rule.action = "type" ->
           <<"element.value = ", "'">> \o rule.value
               \o <<"'", "; element.dispatchEvent(new Event(", "'", "input", "'",
                    ", { bubbles: true }));">>
      [] rule.action = "check" ->
           <<"if (element.checked !== expected) { throw new Error(", "'",
             "Checkbox state mismatch", "'", "); }">>
      [] rule.action = "wait" -> <<"setTimeout(() => {}, timeout);">>
      [] OTHER -> <<>>

\* The script of validateInteraction.
InteractionScript(rule) ==
    <<"(function() { const element = document.querySelector(", "'">> \o rule.selector
        \o <<"'", "); if (!element) { return { success: false, error: ", "'",
             "Element not found", "'", " }; } try {">>
        \o getActionScript(rule)
        \o <<"return { success: true }; } catch (error) { return { success: false, error: error.message }; } })()">>

\* The script of validateElement.
ElementScript(selector) ==
    <<"(function() { const element = document.querySelector(", "'">> \o selector
        \o <<"'", "); return element !== null; })()">>

\* The script as the page's parser reads it: a single-quoted string literal runs from
\* its opening quote to the next quote that no backslash escapes, and counts as one
\* piece whatever it holds; a literal that never ends is "unterminated".
RECURSIVE Lex(_, _)
Lex(s, open) ==
    IF s = <<>> THEN (IF open THEN <<"unterminated">> ELSE <<>>)
    ELSE IF ~open
    THEN IF s[1] = "'" THEN Lex(Tail(s), TRUE) ELSE <<s[1]>> \o Lex(Tail(s), FALSE)
    ELSE IF s[1] = "\\"
    THEN IF Len(s) >= 2 THEN Lex(SubSeq(s, 3, Len(s)), TRUE) ELSE <<"unterminated">>
    ELSE IF s[1] = "'" THEN <<"string">> \o Lex(Tail(s), FALSE)
    ELSE Lex(Tail(s), TRUE)

Structure(s) == Lex(s, FALSE)

\* validateInteraction builds its script for the rule.
BuildInteractionScript ==
    /\ script = NoScript
    /\ script' = [of |-> "interaction", text |-> InteractionScript(uiRule)]
    /\ UNCHANGED <<uiRule, applyVars, unitVars, serverVars, callsVars, limits, cfgMax, apiVars,
                   traceVars, ctlVars, page, callVars, passVars, waitVars, obsVars>>

\* validateElement builds its script for the rule's selector.
BuildElementScript ==
    /\ script = NoScript
    /\ script' = [of |-> "element", text |-> ElementScript(uiRule.selector)]
    /\ UNCHANGED <<uiRule, applyVars, unitVars, serverVars, callsVars, limits, cfgMax, apiVars,
                   traceVars, ctlVars, page, callVars, passVars, waitVars, obsVars>>

(***************************************************************************)
(* The tool handlers: handleFixAndRetest, handleBuildAndTestFeature and    *)
(* handleRunFeatureSuite.                                                  *)
(***************************************************************************)
SingleTools == {"fix_and_retest", "build_and_test_feature"}
LoopTools == SingleTools \cup {"run_feature_suite"}
Tools == LoopTools \cup {"test_feature", "capture_errors"}

\* The uiRules lists tried: rule i of a list is the rule with identity i, or (where null
\* entries are tried) 0 for an entry that is null.
RuleLists ==
    UNION {{r \in [1..n -> 0..n] : \A i \in 1..n : r[i] = i \/ (limits.nulls /\ r[i] = 0)} :
           n \in 0..limits.rules}

FeatureLists(t) ==
    IF t = "run_feature_suite" THEN SeqsUpTo(RuleLists, limits.features)
    ELSE IF t = "capture_errors" THEN {<< <<>> >>}
    ELSE {<<r>> : r \in RuleLists}

\* A response of a handler, or an entry of the suite's results; errors is the
\* ErrorCollection the object carries (errors or lastErrors), message its message text,
\* each <<>> when the object has no such property.
Response(kind, ok, iters, errors, error, history, message) ==
    [kind |-> kind, success |-> ok, iterations |-> iters, errors |-> errors,
     error |-> error, history |-> history, message |-> message]

\* The response returned when a pass succeeds.
SuccessReport(t, iter, history) ==
    Response("success", TRUE, Int2Num(iter), <<>>, "",
             IF t = "build_and_test_feature" THEN history ELSE <<>>,
             IF t = "run_feature_suite" THEN <<>> ELSE <<"passed">>)

\* The response returned when fixError fails.
FixFailedReport(t, iter, fr, result, history) ==
    Response("fixfailed", FALSE, Int2Num(iter), <<result.errors>>, fr.error,
             IF t = "build_and_test_feature" THEN history ELSE <<>>,
             IF t = "run_feature_suite" THEN <<>> ELSE <<"Failed to fix errors">>)

\* The response returned after the while loop: lastResult?.errors, iterations: maxIterations.
ExhaustedReport(t, maxIter, last, history) ==
    Response("exhausted", FALSE, maxIter,
             IF t = "run_feature_suite" THEN <<>>
             ELSE IF last = <<>> THEN <<>> ELSE <<last[1].errors>>,
             "",
             IF t = "build_and_test_feature" THEN history ELSE <<>>,
             <<"Reached maximum iterations">>)

\* An entry of the suite's results: feature: feature.name with the entry's other fields.
Entry(f, r) == [feature |-> f] @@ r

\* results.every((r) => r.success)
allPassed(rs) == \A i \in 1..Len(rs) : rs[i].success

\* A tool call arrives.  args.url is whether mcp_capture_console_errors was given a url;
\* the page is what the session's tab shows when that call arrives.
StartCall ==
    /\ tool = "idle"
    /\ \E t \in limits.tools \cap Tools :
       \E m \in IF t \in LoopTools THEN ArgMaxValues ELSE {Undefined} :
         /\ tool' = t
         /\ \E u \in IF t = "capture_errors" THEN BOOLEAN ELSE {FALSE} :
              args' = [maxIterations |-> m, url |-> u]
         /\ \E fs \in FeatureLists(t) : features' = fs
         /\ page' \in IF t = "capture_errors" THEN PageStates ELSE {page}
    /\ pc' = "ensureBrowser"
    /\ UNCHANGED <<waitVars, limits, cfgMax, auxVars, apiVars, traceVars, ctlVars, featIdx, maxIterations, iteration, lastResult,
                   fixResult, fixHistory, results, success, report, passVars, obsVars>>

\* A test that finds no controller at every call.
NoBrowserEver(b) == TRUE

\* if (!this.browser)
NoBrowser(b) == b = "null"

\* ensureBrowser: the controller is stored before initialize runs; initialize connects the
\* CDP client, falls back to launching Playwright, and throws when the launch fails too.
EnsureBrowser ==
    /\ pc = "ensureBrowser"
    /\ IF NoBrowser(browser)
       THEN /\ browser' = "set"
            /\ \/ cdpClient' = TRUE /\ useCDP' = TRUE /\ pc' = "ensureServer"
                  /\ inits' = Append(inits, "cdp")
                  /\ UNCHANGED playwrightClient
               \/ playwrightClient' = TRUE /\ useCDP' = FALSE /\ pc' = "ensureServer"
                  /\ inits' = Append(inits, "playwright")
                  /\ UNCHANGED cdpClient
               \/ /\ pc' = "failed"
                  /\ inits' = Append(inits, "throws")
                  /\ UNCHANGED <<cdpClient, playwrightClient, useCDP>>
       ELSE /\ pc' = "ensureServer"
            /\ UNCHANGED <<browser, cdpClient, playwrightClient, useCDP, inits>>
    /\ UNCHANGED <<waitVars, limits, cfgMax, applyVars, scriptVars, unitVars, serverVars, atCall, other, ended,
                   apiVars, traceVars, cdpErrors, pwErrors, page, tool, args, features, featIdx,
                   maxIterations, iteration, lastResult, fixResult, fixHistory, results,
                   success, report, passVars, obsVars>>

\* The start of one remediation loop: the locals of the handler and the page it tests.
EnterLoop ==
    /\ maxIterations' = OrElse(args.maxIterations, cfgMax)
    /\ iteration' = 0
    /\ lastResult' = <<>>
    /\ fixResult' = NoFixResult
    /\ success' = FALSE
    /\ passes' = 0
    /\ fixCalls' = 0
    /\ genOutcome' = "none"
    /\ page' \in PageStates
    /\ pc' = "loop"

\* devServer.ensureServerRunning returns or throws; then the handler's locals are set.
EnsureServer ==
    /\ pc = "ensureServer"
    /\ \/ /\ tool \in SingleTools
          /\ EnterLoop
          /\ fixHistory' = <<>>
          /\ featIdx' = 1
          /\ UNCHANGED <<results, tpc, rules>>
       \/ /\ tool = "test_feature"
          /\ passes' = 1
          /\ rules' = features[1]
          /\ tpc' = "start"
          /\ pc' = "testing"
          /\ page' \in PageStates
          /\ UNCHANGED <<maxIterations, iteration, lastResult, fixResult, fixHistory,
                         success, fixCalls, genOutcome, results, featIdx>>
       \/ /\ tool = "run_feature_suite"
          /\ results' = <<>>
          /\ featIdx' = 1
          /\ pc' = "suiteNext"
          /\ UNCHANGED <<maxIterations, iteration, lastResult, fixResult, fixHistory,
                         success, passes, fixCalls, genOutcome, page, tpc, rules>>
       \/ /\ tool = "capture_errors"
          /\ IF args.url
             THEN /\ pc' = "captureNav"
                  /\ UNCHANGED <<passes, rules, tpc>>
             ELSE /\ passes' = 1
                  /\ rules' = features[1]
                  /\ tpc' = "start"
                  /\ pc' = "testing"
          /\ UNCHANGED <<maxIterations, iteration, lastResult, fixResult, fixHistory,
                         success, fixCalls, genOutcome, results, featIdx, page>>
       \/ /\ pc' = "failed"
          /\ UNCHANGED <<maxIterations, iteration, lastResult, fixResult, fixHistory,
                         success, passes, fixCalls, genOutcome, page, results, featIdx,
                         tpc, rules>>
    /\ atCall' = IF tool = "capture_errors" /\ pc' # "failed" THEN Buffer ELSE atCall
    /\ UNCHANGED <<waitVars, limits, cfgMax, applyVars, scriptVars, unitVars, serverVars, inits, other, ended,
                   apiVars, traceVars, ctlVars, tool, args, features, report, collected,
                   ruleIdx, uiErrors, tfResult, nextId, pushed, atDetect>>

\* handleCaptureErrors: if (args.url) await this.browser.navigate(args.url).  The buffer
\* is cleared and the page loads, or navigate throws out of the handler.
CaptureNavigate ==
    /\ pc = "captureNav"
    /\ IF ~CdpActive /\ ~PwActive
       THEN /\ pc' = "failed"
            /\ UNCHANGED <<cdpErrors, pwErrors>>
       ELSE /\ SetBuffer(Cleared(Buffer))
            /\ \/ pc' = "captureLoading"
               \/ page # "clean" /\ pc' = "failed"
    /\ UNCHANGED <<waitVars, limits, cfgMax, auxVars, apiVars, traceVars, browser, cdpClient,
                   playwrightClient, useCDP, page, tool, args, features, featIdx,
                   maxIterations, iteration, lastResult, fixResult, fixHistory, results,
                   success, report, passVars, obsVars>>

\* handleCaptureErrors: the navigation is over; testRunner.testFeature({name:
\* 'error-capture', url: args.url || this.config.devServer.url}) is called.
CaptureLoaded ==
    /\ pc = "captureLoading"
    /\ passes' = 1
    /\ rules' = features[1]
    /\ tpc' = "start"
    /\ pc' = "testing"
    /\ UNCHANGED <<waitVars, limits, cfgMax, auxVars, apiVars, traceVars, ctlVars, page, tool,
                   args, features, featIdx, maxIterations, iteration, lastResult, fixResult,
                   fixHistory, results, success, report, collected, ruleIdx, uiErrors,
                   tfResult, nextId, pushed, atDetect, genOutcome, fixCalls>>

\* for (const feature of args.features): the next feature's loop, or the suite's response.
SuiteNext ==
    /\ pc = "suiteNext"
    /\ IF featIdx <= Len(features)
       THEN /\ EnterLoop
            /\ UNCHANGED report
       ELSE /\ report' = <<[kind |-> "suite", results |-> results,
                            allPassed |-> allPassed(results)]>>
            /\ pc' = "done"
            /\ UNCHANGED <<maxIterations, iteration, lastResult, fixResult, success,
                           passes, fixCalls, genOutcome, page>>
    /\ UNCHANGED <<waitVars, limits, cfgMax, auxVars, apiVars, traceVars, ctlVars, tool, args, features, featIdx, fixHistory, results,
                   passVars, nextId, pushed, atDetect>>

\* while (iteration < maxIterations) { iteration++; testFeature(...) }, and the code after
\* the loop when the guard fails.
LoopHead ==
    /\ pc = "loop"
    /\ IF LessThan(iteration, maxIterations)
       THEN /\ iteration' = iteration + 1
            /\ passes' = passes + 1
            /\ rules' = features[featIdx]
            /\ tpc' = "start"
            /\ pc' = "testing"
            /\ UNCHANGED report
       ELSE /\ IF tool \in SingleTools
               THEN /\ report' = <<ExhaustedReport(tool, maxIterations, lastResult,
                                                   fixHistory)>>
                    /\ pc' = "done"
               ELSE /\ pc' = "suiteAfter"
                    /\ UNCHANGED report
            /\ UNCHANGED <<iteration, passes, rules, tpc>>
    /\ UNCHANGED <<waitVars, limits, cfgMax, auxVars, apiVars, traceVars, ctlVars, page, tool, args, features, featIdx, maxIterations,
                   lastResult, fixResult, fixHistory, results, success, collected, ruleIdx,
                   uiErrors, tfResult, nextId, pushed, atDetect, genOutcome, fixCalls>>

\* A test that takes every pass as failed.
PassedNever(result) == FALSE

\* if (result.success)
Passed(result) == result.success

\* The pass returned: lastResult = result; if (result.success) return / break.  The
\* locals of the finished testFeature call are gone.  handleTestFeature returns the result.
AfterTest ==
    /\ pc = "testing"
    /\ tpc = "ret"
    /\ tpc' = "idle"
    /\ rules' = <<>>
    /\ collected' = NoCollection
    /\ ruleIdx' = 1
    /\ uiErrors' = <<>>
    /\ nextId' = 1
    /\ pushed' = <<>>
    /\ atDetect' = <<>>
    /\ ruleResults' = <<>>
    /\ thrown' = "none"
    /\ lastResult' = IF tool \in SingleTools THEN <<tfResult>> ELSE lastResult
    /\ IF tool \in {"test_feature", "capture_errors"}
       THEN /\ report' = <<Response(IF tool = "test_feature" THEN "result" ELSE "errors",
                                    tfResult.success, Int2Num(1),
                                    <<tfResult.errors>>, "", <<>>, <<>>)>>
            /\ pc' = "done"
            /\ UNCHANGED <<results, success>>
       ELSE IF Passed(tfResult)
       THEN IF tool \in SingleTools
            THEN /\ report' = <<SuccessReport(tool, iteration, fixHistory)>>
                 /\ pc' = "done"
                 /\ UNCHANGED <<results, success>>
            ELSE /\ success' = TRUE
                 /\ results' = Append(results,
                                       Entry(featIdx, SuccessReport(tool, iteration, <<>>)))
                 /\ pc' = "suiteAfter"
                 /\ UNCHANGED report
       ELSE /\ pc' = "fixing"
            /\ UNCHANGED <<report, results, success>>
    /\ UNCHANGED <<waitVars, limits, cfgMax, auxVars, apiVars, ctlVars, page, tool, args, features, featIdx,
                   maxIterations, iteration, fixResult, fixHistory, tfResult,
                   genOutcome, passes, fixCalls>>

\* fixError(result.errors) returned: a failure ends the loop, an applied fix is recorded
\* (build-and-test only) and followed by the delay.
FixError ==
    /\ pc = "fixing"
    /\ \E outcome \in GenOutcomes :
         LET fr == fixError(outcome)
         IN /\ fixResult' = fr
            /\ genOutcome' = outcome
            /\ IF ~fr.success
               THEN /\ IF tool \in SingleTools
                       THEN /\ report' = <<FixFailedReport(tool, iteration, fr, tfResult,
                                                           fixHistory)>>
                            /\ pc' = "done"
                            /\ UNCHANGED results
                       ELSE /\ results' = Append(results,
                                  Entry(featIdx,
                                        FixFailedReport(tool, iteration, fr, tfResult, <<>>)))
                            /\ pc' = "suiteAfter"
                            /\ UNCHANGED report
                    /\ UNCHANGED <<fixHistory, page>>
               ELSE /\ fixHistory' =
                         IF tool = "build_and_test_feature"
                         THEN Append(fixHistory, [iteration |-> iteration,
                                                  fix |-> fr.fix,
                                                  errorsFixed |-> tfResult.errors.summary])
                         ELSE fixHistory
                    /\ page' \in IF page = "clean" THEN {"clean", "faulty"}
                                 ELSE {"faulty", "fixed"}
                    /\ pc' = "delay"
                    /\ UNCHANGED <<report, results>>
    /\ fixCalls' = fixCalls + 1
    /\ UNCHANGED <<waitVars, limits, cfgMax, auxVars, apiVars, traceVars, ctlVars, tool, args, features, featIdx, maxIterations, iteration,
                   lastResult, success, passVars, nextId, pushed, atDetect, passes>>

\* await new Promise((resolve) => setTimeout(resolve, 2000))
Delay ==
    /\ pc = "delay"
    /\ pc' = "loop"
    /\ UNCHANGED <<waitVars, limits, cfgMax, auxVars, apiVars, traceVars, ctlVars, page, tool, args, features, featIdx, maxIterations,
                   iteration, lastResult, fixResult, fixHistory, results, success, report,
                   passVars, obsVars>>

\* if (!success && iteration >= maxIterations) results.push({... 'Reached maximum iterations'})
SuiteAfter ==
    /\ pc = "suiteAfter"
    /\ results' = IF ~success /\ AtLeast(iteration, maxIterations)
                  THEN Append(results,
                              Entry(featIdx, ExhaustedReport(tool, maxIterations, <<>>, <<>>)))
                  ELSE results
    /\ featIdx' = featIdx + 1
    /\ ended' = Append(ended, success)
    /\ pc' = "suiteNext"
    /\ UNCHANGED <<waitVars, limits, cfgMax, applyVars, scriptVars, unitVars, serverVars, atCall,
                   inits, other, apiVars, traceVars, ctlVars, page, tool, args, features, maxIterations, iteration,
                   lastResult, fixResult, fixHistory, success, report, passVars, obsVars>>

(***************************************************************************)
(* A second tool call handled while the first is in flight.  The request   *)
(* handler is async and holds no lock: a request that arrives while the    *)
(* handler of another awaits is handled at once, on the same controller.   *)
(***************************************************************************)
\* The handler of the first call is suspended on an await.
Awaiting ==
    \/ Suspended
    \/ pc \in {"ensureServer", "fixing", "delay"}

\* A second mcp_test_feature call arrives: ensureBrowser finds the controller and the
\* handler awaits ensureServerRunning.
O_Call ==
    /\ tool # "idle"
    /\ Awaiting
    /\ other = "none"
    /\ ~NoBrowser(browser)
    /\ other' = "called"
    /\ UNCHANGED <<limits, cfgMax, applyVars, scriptVars, unitVars, serverVars, atCall, inits, ended, apiVars,
                   traceVars, ctlVars, page, callVars, passVars, waitVars, obsVars>>

\* The second call's testFeature calls browser.navigate: the buffer is cleared and the
\* page loads.
O_Navigate ==
    /\ Awaiting
    /\ other = "called"
    /\ CdpActive \/ PwActive
    /\ SetBuffer(Cleared(Buffer))
    /\ other' = "loading"
    /\ UNCHANGED <<limits, cfgMax, applyVars, scriptVars, unitVars, serverVars, atCall, inits, ended, apiVars,
                   traceVars, browser, cdpClient, playwrightClient, useCDP, page, callVars,
                   passVars, waitVars, obsVars>>

\* The second call's detectAllErrors drains the buffer; its pass goes on without the
\* buffer and returns.
O_Detect ==
    /\ Awaiting \/ tool = "idle"
    /\ other = "loading"
    /\ SetBuffer(Drained(Drained(Buffer)))
    /\ other' = "none"
    /\ UNCHANGED <<limits, cfgMax, applyVars, scriptVars, unitVars, serverVars, atCall, inits, ended, apiVars,
                   traceVars, browser, cdpClient, playwrightClient, useCDP, page, callVars,
                   passVars, waitVars, obsVars>>

\* The handler returned its response, or threw (McpError): the call is over.
Return ==
    /\ pc \in {"done", "failed"}
    /\ tool' = "idle"
    /\ pc' = "idle"
    /\ args' = [maxIterations |-> Undefined, url |-> FALSE]
    /\ features' = <<>>
    /\ featIdx' = 1
    /\ maxIterations' = Undefined
    /\ iteration' = 0
    /\ lastResult' = <<>>
    /\ fixResult' = NoFixResult
    /\ fixHistory' = <<>>
    /\ results' = <<>>
    /\ success' = FALSE
    /\ report' = <<>>
    /\ rules' = <<>>
    /\ collected' = NoCollection
    /\ ruleIdx' = 1
    /\ uiErrors' = <<>>
    /\ tfResult' = NoResult
    /\ nextId' = IF Buffer = <<>> THEN 1 ELSE nextId
    /\ pushed' = <<>>
    /\ atDetect' = <<>>
    /\ genOutcome' = "none"
    /\ passes' = 0
    /\ fixCalls' = 0
    /\ page' = "clean"
    /\ lastCollection' = InitialCollection
    /\ polls' = 0
    /\ pollLog' = <<>>
    /\ ruleResults' = <<>>
    /\ thrown' = "none"
    /\ ended' = <<>>
    /\ UNCHANGED <<limits, cfgMax, applyVars, scriptVars, unitVars, serverVars, atCall, inits,
                   other, apiVars, ctlVars, tpc>>

(***************************************************************************)
(* CursorIntegration.fixError: the file context it passes to generateFix.  *)
(* A source is a sequence of pieces; <<>> is a missing or empty source.    *)
(***************************************************************************)
MaxSourceLen == 3
MaxErrors == 2

SourcePieces == {"http://", "https://", "/", "a", ":", "1"}
Sources ==
    {s \in SeqsUpTo(SourcePieces, MaxSourceLen) :
        \A i \in 2..Len(s) : s[i] \notin {"http://", "https://", "/"}}

\* testFeatureWithRetry's lastResult before the first pass: null.
RetryNull == [success |-> FALSE, pass |-> 0]

\* No path: extractFilePath returned undefined.
NoPath == <<>>
NoContext == [called |-> FALSE, filePath |-> NoPath, contentOf |-> NoPath]

startsWith(s, piece) == Len(s) >= 1 /\ s[1] = piece

\* Where the (?::\d+)?$ of /^(.+?)(?::\d+)?$/ matches: a colon with something before it
\* and only digits, at least one, after it.
LineSuffix(s) ==
    {k \in 2..(Len(s) - 1) : s[k] = ":" /\ \A j \in (k + 1)..Len(s) : s[j] = "1"}

\* match[1]: the source without its line suffix.
FirstGroup(s) ==
    IF LineSuffix(s) = {} THEN s ELSE SubSeq(s, 1, (CHOOSE k \in LineSuffix(s) : TRUE) - 1)

\* path.resolve(process.cwd(), filePath) of a relative path
resolve(filePath) == <<"/", "cwd", "/">> \o filePath

\* extractFilePath: undefined for an empty source and for an http(s) URL; otherwise the
\* source without its line suffix, made absolute.
extractFilePath(source) ==
    IF source = <<>> \/ startsWith(source, "http://") \/ startsWith(source, "https://")
    THEN NoPath
    ELSE IF startsWith(FirstGroup(source), "/")
         THEN FirstGroup(source)
         ELSE resolve(FirstGroup(source))

\* error.errors.find((e) => e.source): the index of the first error with a source,
\* 0 when there is none.
RECURSIVE find(_, _)
find(es, i) ==
    IF i > Len(es) THEN 0
    ELSE IF es[i] # <<>> THEN i
    ELSE find(es, i + 1)

\* fixError up to its call of generateFix: the path is extracted from the source find
\* returned, the content is read when the file exists, and both are passed on.  When
\* readFile throws, the catch branch returns and generateFix is not called.
FX_Context ==
    /\ ~given.called
    /\ LET errorWithSource == find(errs, 1)
           filePath == IF errorWithSource = 0 THEN NoPath
                       ELSE extractFilePath(errs[errorWithSource])
       IN \E exists \in BOOLEAN :
            \/ given' = [called |-> TRUE,
                         filePath |-> filePath,
                         contentOf |-> IF filePath # NoPath /\ exists THEN filePath
                                       ELSE NoPath]
            \/ /\ filePath # NoPath /\ exists
               /\ given' = [called |-> FALSE, filePath |-> filePath, contentOf |-> NoPath]
    /\ UNCHANGED <<errs, rpc, maxAttempts, attempts, attempt, retryResult, retryLog, applyVars,
                   scriptVars, serverVars, callsVars, limits, cfgMax, apiVars, traceVars,
                   ctlVars, page, callVars, passVars, waitVars, obsVars>>

(***************************************************************************)
(* TestRunner.testFeatureWithRetry.  testFeature catches what it throws,   *)
(* so each pass returns a TestResult; the result is kept with the number   *)
(* of the pass that returned it.                                           *)
(***************************************************************************)
\* testFeatureWithRetry is called: attempts = maxAttempts || config.test.maxRetryAttempts.
R_Call ==
    /\ rpc = "idle"
    /\ \E k \in ArgMaxValues :
         /\ maxAttempts' = k
         /\ attempts' = OrElse(k, cfgMax)
    /\ attempt' = 0
    /\ retryResult' = RetryNull
    /\ retryLog' = <<>>
    /\ rpc' = "head"
    /\ UNCHANGED <<errs, given, applyVars, scriptVars, serverVars, callsVars, limits, cfgMax,
                   apiVars, traceVars, ctlVars, page, callVars, passVars, waitVars, obsVars>>

\* i < attempts: testFeature is called, or the loop is over and lastResult is returned.
R_Head ==
    /\ rpc = "head"
    /\ rpc' = IF LessThan(attempt, attempts) THEN "pass" ELSE "returned"
    /\ UNCHANGED <<errs, given, maxAttempts, attempts, attempt, retryResult, retryLog,
                   applyVars, scriptVars, serverVars, callsVars, limits, cfgMax, apiVars,
                   traceVars, ctlVars, page, callVars, passVars, waitVars, obsVars>>

\* testFeature returned: a successful result is returned at once; otherwise the timer of
\* 1 s is started when i < attempts - 1, and the loop goes on without it when not.
R_Pass ==
    /\ rpc = "pass"
    /\ \E ok \in BOOLEAN :
         /\ retryResult' = [success |-> ok, pass |-> attempt + 1]
         /\ retryLog' = Append(retryLog, "pass")
         /\ IF ok
            THEN rpc' = "returned" /\ UNCHANGED attempt
            ELSE IF LessThan(attempt + 1, attempts)
                 THEN rpc' = "pause" /\ UNCHANGED attempt
                 ELSE rpc' = "head" /\ attempt' = attempt + 1
    /\ UNCHANGED <<errs, given, maxAttempts, attempts, applyVars, scriptVars, serverVars,
                   callsVars, limits, cfgMax, apiVars, traceVars, ctlVars, page, callVars,
                   passVars, waitVars, obsVars>>

\* The second is over: i++.
R_Wake ==
    /\ rpc = "pause"
    /\ retryLog' = Append(retryLog, "pause")
    /\ attempt' = attempt + 1
    /\ rpc' = "head"
    /\ UNCHANGED <<errs, given, maxAttempts, attempts, retryResult, applyVars, scriptVars,
                   serverVars, callsVars, limits, cfgMax, apiVars, traceVars, ctlVars, page,
                   callVars, passVars, waitVars, obsVars>>

(***************************************************************************)
(* The process-level cleanup path: the SIGINT and SIGTERM handlers run     *)
(* cleanup() and then process.exit(0).                                     *)
(***************************************************************************)
\* The controller as ensureBrowser leaves it: never created, connected over CDP, launched
\* with Playwright, or created with neither backend because initialize threw.
ControllerStates ==
    {[browser |-> "null", cdpClient |-> FALSE, playwrightClient |-> FALSE, useCDP |-> TRUE],
     [browser |-> "set", cdpClient |-> TRUE, playwrightClient |-> FALSE, useCDP |-> TRUE],
     [browser |-> "set", cdpClient |-> FALSE, playwrightClient |-> TRUE, useCDP |-> FALSE],
     [browser |-> "set", cdpClient |-> FALSE, playwrightClient |-> FALSE, useCDP |-> TRUE]}

\* A signal arrives while the server is suspended.  cleanup awaits browser.close() when a
\* controller exists; without one it goes straight to stopServer, and the handler exits.
K_Signal ==
    /\ kpc = "none"
    /\ ManagerAwaits
    /\ IF NoBrowser(browser)
       THEN /\ stopServer
            /\ kpc' = "exited"
       ELSE /\ kpc' = "closing"
            /\ UNCHANGED <<procs, serverProcess, isRunning>>
    /\ UNCHANGED <<mpc, live, lastProbe, waited, spawns, applyVars, scriptVars, unitVars, callsVars,
                   limits, cfgMax, apiVars, traceVars, ctlVars, page, callVars, passVars,
                   waitVars, obsVars>>

\* browser.close() is over.  When it returned, the clients are released, stopServer runs
\* and the handler calls process.exit(0).  When the close of the client that is set
\* threw, close leaves the field set, cleanup rejects at its first await, and the
\* handler's promise rejects before stopServer and process.exit.
K_Closed ==
    /\ kpc = "closing"
    /\ \/ /\ cdpClient' = Released(cdpClient)
          /\ playwrightClient' = Released(playwrightClient)
          /\ stopServer
          /\ kpc' = "exited"
       \/ /\ cdpClient \/ playwrightClient
          /\ kpc' = "rejected"
          /\ UNCHANGED <<cdpClient, playwrightClient, procs, serverProcess, isRunning>>
    /\ UNCHANGED <<mpc, live, lastProbe, waited, spawns, applyVars, scriptVars, unitVars, callsVars,
                   limits, cfgMax, apiVars, traceVars, browser, useCDP, cdpErrors, pwErrors,
                   page, callVars, passVars, waitVars, obsVars>>

\* No tool call is running and nothing has been observed.
InitIdle ==
    /\ cdpErrors = <<>>
    /\ pwErrors = <<>>
    /\ page = "clean"
    /\ tool = "idle"
    /\ args = [maxIterations |-> Undefined, url |-> FALSE]
    /\ pc = "idle"
    /\ features = <<>>
    /\ featIdx = 1
    /\ maxIterations = Undefined
    /\ iteration = 0
    /\ lastResult = <<>>
    /\ fixResult = NoFixResult
    /\ fixHistory = <<>>
    /\ results = <<>>
    /\ success = FALSE
    /\ report = <<>>
    /\ tpc = "idle"
    /\ rules = <<>>
    /\ collected = NoCollection
    /\ ruleIdx = 1
    /\ uiErrors = <<>>
    /\ tfResult = NoResult
    /\ lastCollection = InitialCollection
    /\ polls = 0
    /\ pollLog = <<>>
    /\ nextId = 1
    /\ pushed = <<>>
    /\ atDetect = <<>>
    /\ genOutcome = "none"
    /\ passes = 0
    /\ fixCalls = 0
    /\ call = "none"
    /\ ret = NoReturn
    /\ closed = FALSE
    /\ chosen = "none"
    /\ stale = {}
    /\ ruleResults = <<>>
    /\ thrown = "none"

\* The server and the controller after construction.
InitServer ==
    /\ browser = "null"
    /\ cdpClient = FALSE
    /\ playwrightClient = FALSE
    /\ useCDP = TRUE
    /\ InitIdle

\* No applyFix call has been made.
InitApplyVars ==
    /\ file = <<>>
    /\ fileBefore = <<>>
    /\ lines = <<>>
    /\ fpc = "idle"
    /\ lastLine = 0
    /\ log = <<>>
    /\ expect = <<>>
    /\ fret = FALSE

\* No script has been built.
InitScriptVars ==
    /\ uiRule = NoRule
    /\ script = NoScript

\* The DevServerManager after construction; the dev server is down.
InitServerVars ==
    /\ mpc = "idle"
    /\ serverProcess = 0
    /\ isRunning = FALSE
    /\ live = FALSE
    /\ lastProbe = FALSE
    /\ waited = 0
    /\ spawns = 0
    /\ procs = NoProcs
    /\ kpc = "none"

\* fixError and testFeatureWithRetry have not been called.
InitUnitVars ==
    /\ errs = <<>>
    /\ given = NoContext
    /\ rpc = "idle"
    /\ maxAttempts = Undefined
    /\ attempts = Undefined
    /\ attempt = 0
    /\ retryResult = RetryNull
    /\ retryLog = <<>>

InitCalls ==
    /\ atCall = <<>>
    /\ inits = <<>>
    /\ other = "none"
    /\ ended = <<>>

InitState ==
    /\ cfgMax \in CfgMaxValues
    /\ InitServer
    /\ InitApplyVars
    /\ InitScriptVars
    /\ InitServerVars
    /\ InitCalls
    /\ InitUnitVars

\* The server as its client calls mcp_fix_and_retest.
Init ==
    /\ limits = [push |-> MaxLoopPush, rules |-> MaxLoopRules, features |-> 1,
                 tools |-> {"fix_and_retest"}, nulls |-> FALSE]
    /\ InitState

TestFeatureSteps ==
    \/ TF_Navigate
    \/ PushError("console")
    \/ PushError("network")
    \/ TF_DetectBuffered
    \/ TF_DetectProbe
    \/ TF_ValidateRule
    \/ TF_Return

Next ==
    \/ StartCall
    \/ EnsureBrowser
    \/ EnsureServer
    \/ LoopHead
    \/ TestFeatureSteps
    \/ AfterTest
    \/ FixError
    \/ Delay
    \/ Return

Spec == Init /\ [][Next]_vars

\* The server as its client calls mcp_build_and_test_feature.
InitBuild ==
    /\ limits = [push |-> MaxLoopPush, rules |-> MaxLoopRules, features |-> 1,
                 tools |-> {"build_and_test_feature"}, nulls |-> FALSE]
    /\ InitState

SpecBuild == InitBuild /\ [][Next]_vars

\* The steps of handleFixAndRetest's loop: the loop guard, the steps of the pass, what
\* follows the pass, the Fix Generator's return and the end of the delay.
LoopSteps ==
    \/ LoopHead
    \/ TF_Navigate
    \/ TF_DetectBuffered
    \/ TF_DetectProbe
    \/ TF_ValidateRule
    \/ TF_Return
    \/ AfterTest
    \/ FixError
    \/ Delay

\* mcp_fix_and_retest with every pass, every call of the Fix Generator and every delay
\* returning.
SpecLoop == Init /\ [][Next]_vars /\ WF_vars(LoopSteps)

\* The server as its client calls mcp_test_feature (single verification passes), and the
\* detector's waitForErrors as called directly.
InitPass ==
    /\ limits = [push |-> MaxPush, rules |-> MaxRules, features |-> 1,
                 tools |-> {"test_feature", "waitForErrors"}, nulls |-> TRUE]
    /\ InitState

NextPass ==
    \/ StartCall
    \/ EnsureBrowser
    \/ EnsureServer
    \/ TestFeatureSteps
    \/ AfterTest
    \/ W_Call
    \/ W_Poll
    \/ W_Detected
    \/ W_Wake
    \/ Return

SpecPass == InitPass /\ [][NextPass]_vars

\* The server as its client calls mcp_run_feature_suite.
InitSuite ==
    /\ limits = [push |-> MaxLoopPush, rules |-> MaxLoopRules, features |-> MaxFeatures,
                 tools |-> {"run_feature_suite"}, nulls |-> FALSE]
    /\ InitState

NextSuite ==
    \/ StartCall
    \/ EnsureBrowser
    \/ EnsureServer
    \/ SuiteNext
    \/ LoopHead
    \/ TestFeatureSteps
    \/ AfterTest
    \/ FixError
    \/ Delay
    \/ SuiteAfter
    \/ Return

SpecSuite == InitSuite /\ [][NextSuite]_vars

\* A client that drives a BrowserControllerImpl directly.
InitCtl ==
    /\ limits = [push |-> MaxCtlPush, rules |-> 0, features |-> 0, tools |-> {"controller"},
                 nulls |-> FALSE]
    /\ InitState

NextCtl ==
    \/ C_Initialize
    \/ C_Navigate
    \/ C_Evaluate
    \/ C_Settle
    \/ C_CaptureErrors
    \/ C_Close
    \/ PushError("console")
    \/ PushError("network")

SpecCtl == InitCtl /\ [][NextCtl]_vars

\* The server as its client calls mcp_capture_console_errors, with a url and without.
InitCapture ==
    /\ limits = [push |-> MaxPush, rules |-> 0, features |-> 1,
                 tools |-> {"capture_errors"}, nulls |-> FALSE]
    /\ InitState

NextCapture ==
    \/ StartCall
    \/ EnsureBrowser
    \/ EnsureServer
    \/ CaptureNavigate
    \/ CaptureLoaded
    \/ TF_Navigate
    \/ PushError("console")
    \/ PushError("network")
    \/ TF_DetectBuffered
    \/ TF_DetectProbe
    \/ TF_Return
    \/ AfterTest
    \/ Return

SpecCapture == InitCapture /\ [][NextCapture]_vars

\* The server as two mcp_test_feature calls are in flight at the same time.
InitTwo ==
    /\ limits = [push |-> MaxLoopPush, rules |-> MaxLoopRules, features |-> 1,
                 tools |-> {"test_feature"}, nulls |-> FALSE]
    /\ InitState

NextTwo ==
    \/ StartCall
    \/ EnsureBrowser
    \/ EnsureServer
    \/ TestFeatureSteps
    \/ AfterTest
    \/ O_Call
    \/ O_Navigate
    \/ O_Detect
    \/ Return

SpecTwo == InitTwo /\ [][NextTwo]_vars

\* UIValidator builds a script for any rule with a short selector and value.
InitScript ==
    /\ limits = [push |-> 0, rules |-> 0, features |-> 0, tools |-> {}, nulls |-> FALSE]
    /\ cfgMax = Int2Num(1)
    /\ InitServer
    /\ InitApplyVars
    /\ uiRule \in [selector : SeqsUpTo(ScriptChars, MaxSelectorLen), action : RuleActions,
                    value : SeqsUpTo(ScriptChars, MaxValueLen)]
    /\ script = NoScript
    /\ InitServerVars
    /\ InitCalls
    /\ InitUnitVars

NextScript == BuildInteractionScript \/ BuildElementScript

SpecScript == InitScript /\ [][NextScript]_vars

\* A caller of DevServerManager.ensureServerRunning, and the dev server.  Each probe
\* ends (the fetch is aborted after 2 s) and each sleep ends, so the manager's steps are
\* weakly fair; the dev server is free.
InitManager ==
    /\ limits = [push |-> 0, rules |-> 0, features |-> 0, tools |-> {}, nulls |-> FALSE]
    /\ cfgMax = Int2Num(1)
    /\ InitServer
    /\ InitApplyVars
    /\ InitScriptVars
    /\ InitServerVars
    /\ InitCalls
    /\ InitUnitVars

ManagerSteps == M_Call \/ M_Probe \/ M_Poll \/ M_Wake \/ M_Return

NextManager ==
    \/ M_Call
    \/ M_Probe
    \/ M_Poll
    \/ M_Wake
    \/ M_Return
    \/ E_Server
    \/ E_Die
    \/ E_Exit

SpecManager == InitManager /\ [][NextManager]_vars /\ WF_vars(ManagerSteps)

\* A client of the DevServerManager that calls ensureServerRunning and stopServer in any
\* order while the processes it spawned end and their 'exit' events are delivered.
NextClient ==
    \/ M_Call
    \/ M_Probe
    \/ M_Poll
    \/ M_Wake
    \/ M_Return
    \/ M_Stop
    \/ E_Server
    \/ E_Die
    \/ E_Exit

SpecClient == InitManager /\ [][NextClient]_vars

\* The server with any controller ensureBrowser can have left, its manager at work, and
\* a termination signal arriving at any suspension.
InitCleanup ==
    /\ limits = [push |-> 0, rules |-> 0, features |-> 0, tools |-> {}, nulls |-> FALSE]
    /\ cfgMax = Int2Num(1)
    /\ \E c \in ControllerStates :
         /\ browser = c.browser
         /\ cdpClient = c.cdpClient
         /\ playwrightClient = c.playwrightClient
         /\ useCDP = c.useCDP
    /\ InitIdle
    /\ InitApplyVars
    /\ InitScriptVars
    /\ InitServerVars
    /\ InitCalls
    /\ InitUnitVars

NextCleanup ==
    \/ Serving /\ M_Call
    \/ Serving /\ M_Probe
    \/ Serving /\ M_Poll
    \/ Serving /\ M_Wake
    \/ Serving /\ M_Return
    \/ Serving /\ E_Server
    \/ Serving /\ E_Die
    \/ Serving /\ E_Exit
    \/ K_Signal
    \/ K_Closed

SpecCleanup == InitCleanup /\ [][NextCleanup]_vars

\* CursorIntegration.fixError called once with any short collection of errors.
InitContext ==
    /\ limits = [push |-> 0, rules |-> 0, features |-> 0, tools |-> {}, nulls |-> FALSE]
    /\ cfgMax = Int2Num(1)
    /\ InitServer
    /\ InitApplyVars
    /\ InitScriptVars
    /\ InitServerVars
    /\ InitCalls
    /\ errs \in SeqsUpTo(Sources, MaxErrors)
    /\ given = NoContext
    /\ rpc = "idle"
    /\ maxAttempts = Undefined
    /\ attempts = Undefined
    /\ attempt = 0
    /\ retryResult = RetryNull
    /\ retryLog = <<>>

NextContext == FX_Context

SpecContext == InitContext /\ [][NextContext]_vars

\* ErrorDetector.waitForErrors called by a client on a detector whose controller is in
\* any state ensureBrowser can have left.  Each detectAllErrors call returns and each
\* sleep ends, so the steps of waitForErrors are weakly fair.
InitWait ==
    /\ limits = [push |-> MaxPush, rules |-> 0, features |-> 1,
                 tools |-> {"waitForErrors"}, nulls |-> FALSE]
    /\ cfgMax = Int2Num(1)
    /\ \E c \in ControllerStates :
         /\ browser = c.browser
         /\ cdpClient = c.cdpClient
         /\ playwrightClient = c.playwrightClient
         /\ useCDP = c.useCDP
    /\ InitIdle
    /\ InitApplyVars
    /\ InitScriptVars
    /\ InitServerVars
    /\ InitCalls
    /\ InitUnitVars

WaitSteps == W_Poll \/ W_Detected \/ W_Wake \/ TF_DetectBuffered \/ TF_DetectProbe

NextWait ==
    \/ W_Call
    \/ W_Poll
    \/ W_Detected
    \/ W_Wake
    \/ PushError("console")
    \/ PushError("network")
    \/ TF_DetectBuffered
    \/ TF_DetectProbe
    \/ Return

SpecWait == InitWait /\ [][NextWait]_vars /\ WF_vars(WaitSteps)

\* TestRunner.testFeatureWithRetry called once with any maxAttempts, under any configured
\* maxRetryAttempts.
InitRetry ==
    /\ limits = [push |-> 0, rules |-> 0, features |-> 0, tools |-> {}, nulls |-> FALSE]
    /\ cfgMax \in CfgMaxValues
    /\ InitServer
    /\ InitApplyVars
    /\ InitScriptVars
    /\ InitServerVars
    /\ InitCalls
    /\ InitUnitVars

NextRetry ==
    \/ R_Call
    \/ R_Head
    \/ R_Pass
    \/ R_Wake

SpecRetry == InitRetry /\ [][NextRetry]_vars

\* GeminiClient.applyFix called once, for any small file and any few changes.
InitApply ==
    /\ limits = [push |-> 0, rules |-> 0, features |-> 0, tools |-> {}, nulls |-> FALSE]
    /\ cfgMax = Int2Num(1)
    /\ InitServer
    /\ file \in SeqsUpTo(FileChars, MaxFileLen)
    /\ fileBefore = <<>>
    /\ lines = <<>>
    /\ fpc = "idle"
    /\ lastLine = 0
    /\ log = <<>>
    /\ expect = <<>>
    /\ fret = FALSE
    /\ InitScriptVars
    /\ InitServerVars
    /\ InitCalls
    /\ InitUnitVars

NextApply == applyFix_Call \/ applyFix_Change \/ applyFix_Write

SpecApply == InitApply /\ [][NextApply]_vars

(***************************************************************************)
(* Properties.                                                             *)
(***************************************************************************)
InLoop == tool \in LoopTools /\ pc \in {"loop", "testing", "fixing", "delay", "done",
                                        "suiteAfter"}
Reported == tool \in SingleTools /\ pc = "done" /\ report # <<>>

\* C1: one run of the remediation loop performs at most maxIterations verification
\* passes: every pass performed is within the effective maximum.
C1_PassesWithinMax ==
    (InLoop /\ passes > 0) => (maxIterations.k = "num" /\ 2 * passes <= maxIterations.h)

\* C2: every terminal report of the remediation loop carries an iteration count n with
\* 1 <= n <= the effective maximum.
C2_ReportIterationsInRange ==
    Reported =>
        LET n == report[1].iterations
        IN /\ n.k = "num"
           /\ n.h >= 2
           /\ maxIterations.k = "num"
           /\ n.h <= maxIterations.h

\* C3: for every testFeature result, success is true iff the returned ErrorCollection
\* has no errors and every UI rule of the feature passed.
C3_SuccessIffNoErrorsAndRulesPassed ==
    tpc = "ret" =>
        (tfResult.success <=> (Len(tfResult.errors.errors) = 0 /\ Len(uiErrors) = 0))

C3_Witness ==
    /\ tpc = "ret"
    /\ tfResult.success
    /\ Len(rules) = 2
    /\ ruleIdx = 3

\* C4: every error that is in the buffer when detectAllErrors is called, or that a
\* callback pushes while it runs, appears exactly once in the returned ErrorCollection.
C4_DetectReturnsBuffered ==
    ((tpc = "validate" /\ ruleIdx = 1) \/ tpc = "detected") =>
        \A e \in Range(atDetect) : Occurrences(collected.errors, e) = 1

\* C5: every error pushed into the buffer during one verification pass, between its
\* navigation and its return, is included in that pass's TestResult.
C5_PassIncludesPushed ==
    tpc = "ret" => \A e \in Range(pushed) : e \in Range(tfResult.errors.errors)

\* C6: when the Fix Generator reports failure in iteration n the loop ends in FixFailed
\* at once: no further pass or fixError call, and the report has success=false,
\* iterations=n, that iteration's ErrorCollection and the generator's failure reason
\* ('Could not generate fix for the error' when no fix was produced).
C6_FixFailedTerminal ==
    (tool \in SingleTools /\ fixCalls >= 1 /\ genOutcome # "applied") =>
        /\ pc = "done"
        /\ passes = iteration
        /\ fixCalls = iteration
        /\ report # <<>>
        /\ report[1].kind = "fixfailed"
        /\ report[1].success = FALSE
        /\ report[1].iterations = Int2Num(iteration)
        /\ report[1].errors = <<tfResult.errors>>
        /\ report[1].error # ""
        /\ genOutcome = "nofix" =>
               report[1].error = "Could not generate fix for the error"
        /\ genOutcome = "notapplied" => report[1].error = "Failed to apply fix to file"

C6_Witness ==
    /\ Reported
    /\ report[1].kind = "fixfailed"
    /\ genOutcome = "nofix"
    /\ report[1].iterations = Int2Num(1)
    /\ passes = 1

\* C7: when every pass fails and every fixError call applies a fix, the loop with
\* maxIterations = m (an integer m >= 1) ends in Exhausted after exactly m passes, with
\* success=false, iterations=m and the ErrorCollection of the last pass.
C7_ExhaustedAfterMax ==
    (Reported /\ IsInteger(maxIterations) /\ maxIterations.h >= 2
       /\ ~tfResult.success /\ genOutcome = "applied") =>
        /\ report[1].kind = "exhausted"
        /\ report[1].success = FALSE
        /\ 2 * passes = maxIterations.h
        /\ fixCalls = passes
        /\ report[1].iterations = maxIterations
        /\ report[1].errors = <<tfResult.errors>>

C7_Witness ==
    /\ Reported
    /\ report[1].kind = "exhausted"
    /\ maxIterations = Int2Num(2)
    /\ passes = 2
    /\ fixCalls = 2

\* C8: for a page without errors whose rules all execute, the loop reports success=true
\* with iterations=1 and never calls the Fix Generator, whichever backend is active.
C8_CleanPageSucceeds ==
    (Reported /\ page = "clean" /\ (CdpActive \/ PwActive) /\ LessThan(0, maxIterations)) =>
        /\ report[1].success
        /\ report[1].iterations = Int2Num(1)
        /\ fixCalls = 0

\* C9: for every ErrorCollection produced, hasErrors is true iff the error sequence is
\* non-empty.
HasErrorsIffNonEmpty(c) == c.hasErrors <=> Len(c.errors) > 0

C9_HasErrorsIffNonEmpty ==
    /\ (tpc \in {"validate", "detected"} => HasErrorsIffNonEmpty(collected))
    /\ (tpc = "ret" => HasErrorsIffNonEmpty(tfResult.errors))
    /\ ((tool = "waitForErrors" /\ pc = "done") => HasErrorsIffNonEmpty(report[1]))

C9_Witness ==
    /\ tpc = "ret"
    /\ Len(uiErrors) > 0
    /\ ~collected.hasErrors
    /\ tfResult.errors.hasErrors

\* C10: the summary of every ErrorCollection produced mentions each error type present
\* in the error sequence with the number of errors of that type.
Mentions(sm, t, n) ==
    \/ \E i \in 1..Len(sm.parts) : sm.parts[i].type = t /\ sm.parts[i].count = n
    \/ t = "ui" /\ n > 0 /\ sm.uiFailed = n

SummaryCountsTypes(c) ==
    \A t \in {c.errors[i].type : i \in 1..Len(c.errors)} :
        Mentions(c.summary, t, Count(c.errors, t))

C10_SummaryCountsTypes ==
    /\ (tpc \in {"validate", "detected"} => SummaryCountsTypes(collected))
    /\ (tpc = "ret" => SummaryCountsTypes(tfResult.errors))

\* C11: on either backend captureErrors returns exactly the errors buffered since the
\* buffer was last emptied, in arrival order, and leaves the buffer empty: a second
\* captureErrors with no browser event in between returns an empty list.
C11_CaptureDrainsOnce ==
    ret.op = "captureErrors" =>
        /\ ret.outcome = "ok"
        /\ ret.value = ret.arrived
        /\ Buffer = pushed
        /\ ret.again => ret.value = <<>>

C11_Witness ==
    /\ ret.op = "captureErrors"
    /\ ret.again
    /\ Len(ret.prev) = 2
    /\ ret.value = <<>>
    /\ ret.backend = "playwright"

\* C12: validateMultiple executes every rule exactly once in list order, continuing past
\* failures; its errors are one UI error per failing rule in rule order, and its success
\* flag is true iff no rule failed.
RECURSIVE FailedRules(_)
FailedRules(rs) ==
    IF rs = <<>> THEN <<>>
    ELSE (IF Head(rs).success THEN <<>> ELSE <<Err("ui", Head(rs).rule)>>)
         \o FailedRules(Tail(rs))

C12_EveryRuleOnceInOrder ==
    /\ tpc = "validate" =>
          /\ Len(ruleResults) = ruleIdx - 1
          /\ ruleIdx <= Len(rules) + 1
          /\ \A i \in 1..Len(ruleResults) : ruleResults[i].rule = rules[i]
          /\ validateMultiple(uiErrors).errors = FailedRules(ruleResults)
          /\ validateMultiple(uiErrors).success <=>
                 \A i \in 1..Len(ruleResults) : ruleResults[i].success
    /\ (tpc = "ret" /\ thrown = "none") => Len(ruleResults) = Len(rules)

C12_Witness ==
    /\ tpc = "validate"
    /\ Len(rules) = 2
    /\ ruleIdx = 3
    /\ ~ruleResults[1].success
    /\ ruleResults[2].success
    /\ uiErrors = <<Err("ui", rules[1])>>

\* C13: testFeature never raises: an exception of one of its steps ends the pass with a
\* TestResult that has success=false and an ErrorCollection of exactly one synthetic
\* console error with hasErrors=true.
C13_ExceptionBecomesResult ==
    thrown # "none" =>
        /\ tpc = "ret"
        /\ ~tfResult.success
        /\ Len(tfResult.errors.errors) = 1
        /\ tfResult.errors.errors[1].type = "console"
        /\ tfResult.errors.hasErrors

C13_Witness ==
    /\ thrown = "validate"
    /\ tpc = "ret"
    /\ collected.hasErrors
    /\ Len(uiErrors) = 1
    /\ tfResult.errors.errors = <<Err("console", 0)>>

\* C14: initialize() activates the primary backend when the primary connection succeeds,
\* the fallback backend when the primary connection fails and the fallback launch
\* succeeds, and fails only when both fail.
C14_InitializeFallsBack ==
    ret.op = "initialize" =>
        /\ ret.env.cdp => (ret.outcome = "ok" /\ Active = "cdp")
        /\ (~ret.env.cdp /\ ret.env.pw) => (ret.outcome = "ok" /\ Active = "playwright")
        /\ ret.outcome = "threw" <=> (~ret.env.cdp /\ ~ret.env.pw)

C14_Witness ==
    /\ ret.op = "initialize"
    /\ ~ret.env.cdp
    /\ ret.env.pw
    /\ Active = "playwright"
    /\ ~closed

\* C15: from a successful initialize until close exactly one backend client is set, and
\* navigate, captureErrors and evaluate are dispatched to the backend that initialize
\* activated.
C15_OneBackendUntilClose ==
    chosen # "none" =>
        /\ cdpClient # playwrightClient
        /\ Active = chosen
        /\ ret.op \in {"navigate", "captureErrors", "evaluate"} => ret.backend = chosen

\* C16: once close() has been called the controller is never Connected again.
C16_ClosedStaysClosed ==
    closed => Active = "none"

C18_NavigateClearsBuffer ==
    /\ ret.op = "captureErrors" => Range(ret.value) \cap stale = {}
    /\ call = "navigate" => (Buffer = pushed /\ Range(Buffer) \cap stale = {})
    /\ (ret.op = "navigate" /\ ret.outcome = "ok") =>
           (Buffer = pushed /\ Range(Buffer) \cap stale = {})

C18_Witness ==
    /\ ret.op = "captureErrors"
    /\ stale # {}
    /\ ret.value # <<>>
    /\ ret.arrived = ret.value

\* C19: navigate and evaluate on a controller with no backend set (Uninitialized or
\* Closed) fail with an error and leave the controller's state unchanged.
C19_UninitializedCallFails ==
    [][((C_Navigate \/ C_Evaluate) /\ ~cdpClient /\ ~playwrightClient) =>
         (ret'.outcome = "threw" /\ call' = "none" /\ UNCHANGED ctlVars)]_vars

C19_Witness ==
    /\ ret.op = "evaluate"
    /\ ret.outcome = "threw"
    /\ ret.backend = "none"
    /\ closed

\* C20: the suite runs the loops of its features one after another in list order, and
\* its result list holds exactly one entry per feature, in list order: when the loop of
\* feature i is over the list holds the entries of features 1..i, one each.
C20_OneEntryPerFeature ==
    (tool = "run_feature_suite" /\ pc \in {"suiteNext", "done"}) =>
        /\ Len(results) = featIdx - 1
        /\ \A i \in 1..Len(results) : results[i].feature = i
        /\ pc = "done" => (Len(report[1].results) = Len(features)
                           /\ \A i \in 1..Len(features) : report[1].results[i].feature = i)

\* The fixes applied so far in the running remediation loop: every fixError call but a
\* failed last one.
AppliedFixes == IF fixResult.success THEN fixCalls ELSE fixCalls - 1

\* C21: every terminal report of the remediation loop carries the full history: one entry
\* per applied fix, in iteration order, each with its iteration index, the applied fix
\* record and the error summary.
C21_ReportCarriesHistory ==
    Reported =>
        LET h == report[1].history
        IN /\ Len(h) = AppliedFixes
           /\ \A i \in 1..Len(h) :
                 /\ h[i].iteration = i
                 /\ h[i].fix

\* C22: after applyFix has written the file, every line targeted by a replacement whose
\* line number lies within the file and whose old text equals the line's trimmed text
\* (whitespace around the old text aside) holds that replacement's new text, every other
\* line is unchanged, and the file has as many lines as before.
C22_MatchingLinesReplaced ==
    (fpc = "done" /\ fret) => split(file) = expect

\* The changes of the finished applyFix call that found the verdicts vs.
Found(vs) == {i \in 1..Len(log) : log[i].found \in vs}

C24_NoUrlNoNavigation ==
    (tool = "capture_errors" /\ ~args.url) =>
        /\ tpc # "loading"
        /\ (pc = "testing" /\ tpc \in {"start", "loading"}) =>
               (Len(Buffer) >= Len(atCall) /\ SubSeq(Buffer, 1, Len(atCall)) = atCall)
        /\ (pc = "done" /\ report # <<>>) =>
               \A i \in 1..Len(atCall) :
                   Occurrences(report[1].errors[1].errors, atCall[i]) >= 1

\* The controller holds the session that an initialize call connected, and no other.
SessionIs(b) ==
    CASE b = "cdp" -> cdpClient /\ useCDP /\ ~playwrightClient
      [] b = "playwright" -> playwrightClient /\ ~useCDP /\ ~cdpClient
      [] OTHER -> ~cdpClient /\ ~playwrightClient

\* C25: across the tool calls of one run initialize is executed at most once, and the
\* session it connected is the one the controller holds in every pass, loop iteration
\* and feature: navigation changes nothing of the controller but the error buffer.
C25_SessionCreatedOnce ==
    /\ Len(inits) <= 1
    /\ \A i \in 1..Len(inits) : SessionIs(inits[i])
    /\ browser = "set" <=> Len(inits) = 1

\* The second pass on the second feature of a suite has navigated on the session that
\* the only initialize call connected.
C25_Witness ==
    /\ tool = "run_feature_suite"
    /\ featIdx = 2
    /\ iteration = 2
    /\ tpc = "loading"
    /\ Len(results) = 1
    /\ inits = <<"cdp">>
    /\ cdpErrors = <<>>

\* C26: when two tool calls are in flight at the same time, at most one navigation or
\* evaluation is outstanding on the shared session: no pass of one call navigates
\* between the other call's navigation and its error drain.
C26_OneOutstanding ==
    ~(tpc \in {"loading", "probe"} /\ other = "loading")

\* The report r carries the ErrorCollection of the last pass, the number of iterations
\* the loop reached and a message.
Carries(r) ==
    /\ r.errors = <<tfResult.errors>>
    /\ r.iterations = Int2Num(iteration)
    /\ r.message # <<>>

\* C27: every failure report of a remediation loop that ran a pass (FixFailed or
\* Exhausted; of the single-feature and build-and-test handlers and of each feature of
\* the suite) carries the last ErrorCollection, the iteration count reached and a
\* human-readable message.
C27_FailureCarriesAll ==
    /\ (Reported /\ ~report[1].success /\ passes >= 1) => Carries(report[1])
    /\ (tool = "run_feature_suite" /\ pc = "suiteNext" /\ results # <<>>
           /\ ~results[Len(results)].success /\ passes >= 1)
          => Carries(results[Len(results)])

\* C28: validateInteraction never raises for a rule: when the page is unavailable, the
\* element is not found, the action throws or evaluate fails it returns success = false
\* with a UI error naming the rule's selector and action, and otherwise success = true
\* with no error.
C28_InteractionNeverRaises ==
    /\ \A i \in 1..Len(ruleResults) :
          LET r == ruleResults[i]
          IN /\ ~r.raised
             /\ IF r.page = "null" \/ r.outcome \in {"notfound", "throws", "evalfails"}
                THEN ~r.success /\ r.error = <<Err("ui", r.rule)>>
                ELSE r.success /\ r.error = <<>>
    /\ (thrown = "validate") => (ruleIdx \in 1..Len(rules) /\ rules[ruleIdx] = 0)

\* validateMultiple has called validateInteraction for a rule whose evaluate failed and
\* for a rule that passed.
C28_Witness ==
    /\ Len(ruleResults) = 2
    /\ ruleResults[1].outcome = "evalfails"
    /\ ruleResults[1].page # "null"
    /\ ~ruleResults[1].success
    /\ ruleResults[2].outcome = "ok"
    /\ ruleResults[2].success
    /\ thrown = "none"

\* The rule with a selector and a value of one plain character.
Plain(rule) == [rule EXCEPT !.selector = <<"a">>, !.value = <<"a">>]

\* C29: the selector and the value are pure data in the script built for a rule: no
\* character of them ends the string literal they are embedded in, so the script has
\* the structure of the script built for the same rule with a plain selector and value.
C29_SelectorAndValueAreData ==
    /\ script.of = "interaction" =>
          Structure(script.text) = Structure(InteractionScript(Plain(uiRule)))
    /\ script.of = "element" =>
          Structure(script.text) = Structure(ElementScript(<<"a">>))

\* C30: ensureServerRunning spawns the start command only in a step whose probe
\* reported the server not live; it never returns normally unless the last probe
\* reported the server live; it fails only when the readiness wait has elapsed; and
\* every call ends, by a return or by that failure.
C30_EnsureServerRunning ==
    /\ [](mpc = "returned" => (lastProbe /\ isRunning))
    /\ [](mpc = "failed" => (~lastProbe /\ ~WithinWait(waited)))
    /\ [][spawns' > spawns => (~lastProbe' /\ mpc = "probe")]_vars
    /\ (mpc = "probe") ~> (mpc \in {"returned", "failed"})

\* A call found the server down, spawned the start command, found it down in the first
\* round of the wait and live in the next, and returned.
C30_Witness ==
    /\ mpc = "returned"
    /\ spawns = 1
    /\ waited = 1
    /\ lastProbe
    /\ isRunning
    /\ live


\* C31: once the cleanup path has run (the signal handler has ended), no backend client
\* is left open and no process the manager spawned is still running, also when closing
\* the backend raised.
C31_CleanupReleasesAll ==
    kpc \in {"exited", "rejected"} =>
        /\ ~cdpClient
        /\ ~playwrightClient
        /\ Running = {}

\* C37: the manager holds no handle only if none of the processes it spawned is still
\* running, and at most one of them runs, so stopServer ends the one that does.
C37_HandleNeverLost ==
    /\ serverProcess = 0 => Running = {}
    /\ Cardinality(Running) <= 1
    /\ serverProcess # 0 => Running \subseteq {serverProcess}

\* The errors of the collection whose source resolves to a local file path.
Resolvable == {i \in 1..Len(errs) : extractFilePath(errs[i]) # NoPath}

\* C32: when generateFix is called and some error of the collection has a source that
\* resolves to a local file path, the path passed is that of the first such error, and
\* the content passed, if any, is that file's.
C32_FirstResolvableSource ==
    (given.called /\ Resolvable # {}) =>
        LET first == CHOOSE i \in Resolvable : \A j \in Resolvable : i <= j
        IN /\ given.filePath = extractFilePath(errs[first])
           /\ given.contentOf \in {NoPath, extractFilePath(errs[first])}

\* The polls of waitForErrors that reported errors.
Reporting == {i \in 1..Len(pollLog) : pollLog[i].hasErrors}

\* C33: waitForErrors goes on polling only after a poll that reported errors, so a poll
\* that reports none is the last; every call ends; and what it returns has hasErrors
\* true exactly when some poll reported errors, and then is the collection of the last
\* poll that did.
C33_WaitForErrors ==
    /\ [](tool = "waitForErrors" => \A i \in 1..(Len(pollLog) - 1) : i \in Reporting)
    /\ []((tool = "waitForErrors" /\ pc = "done") =>
            /\ report[1].hasErrors <=> Reporting # {}
            /\ Reporting # {} =>
                 report[1] = pollLog[CHOOSE i \in Reporting : \A j \in Reporting : j <= i])
    /\ [][(pc = "waitSleep" /\ pc' = "waitPoll") => pollLog[Len(pollLog)].hasErrors]_vars
    /\ (pc = "waitCalled") ~> (tool = "waitForErrors" /\ pc = "done")

\* A call polled twice: the first poll reported errors, the second reported none, and
\* the call returned the collection of the first.
C33_Witness ==
    /\ tool = "waitForErrors"
    /\ pc = "done"
    /\ Len(pollLog) = 2
    /\ pollLog[1].hasErrors
    /\ ~pollLog[2].hasErrors
    /\ report[1] = pollLog[1]

\* The passes testFeatureWithRetry has performed.
Did(what) == Cardinality({i \in 1..Len(retryLog) : retryLog[i] = what})

\* C34: a call of testFeatureWithRetry with the attempt count k performs at most k
\* passes, calls the Fix Generator never, pauses only after a failed pass that another
\* pass follows, and returns a TestResult: that of its last pass, which is its only
\* successful one if any succeeded.
C34_BareRetry ==
    /\ (rpc # "idle" /\ maxAttempts.k = "num") =>
         (Did("pass") = 0 \/ 2 * Did("pass") <= maxAttempts.h)
    /\ fixCalls = 0
    /\ rpc = "returned" =>
         /\ retryLog # <<>> => retryLog[Len(retryLog)] = "pass"
         /\ retryResult # RetryNull
         /\ retryResult.pass = Did("pass")

\* C35: when a remediation loop has ended, by any of its reports, the last fix it applied
\* has been tested by a later verification pass: the passes outnumber the calls of the
\* Fix Generator whenever the last of them applied a fix.
C35_EveryFixVerified ==
    (tool \in SingleTools /\ pc = "done" /\ fixCalls > 0 /\ fixResult.success) =>
        passes > fixCalls

\* C36: fixError reports success for a fix with replacements only if applyFix wrote at
\* least one of them to the file: a fix whose replacements all found another text at
\* their line, or no such line, is reported as a failure.
C36_SuccessMeansWritten ==
    (fpc = "done" /\ log # <<>> /\ fixError(IF fret THEN "applied" ELSE "notapplied").success)
        => Found({"equal", "trimequal"}) # {}

\* C38: the allPassed flag of the suite's response is true exactly when the remediation
\* loop of every feature of the list ended in success.
C38_AllPassedIffAllSucceeded ==
    (tool = "run_feature_suite" /\ pc = "done") =>
        (report[1].allPassed <=>
            (Len(ended) = Len(features) /\ \A i \in 1..Len(ended) : ended[i]))

\* C39: a verification pass runs only against a controller whose initialize has
\* completed: while a pass of a tool call is in progress, the last initialize the server
\* made connected a backend.
C39_PassOnInitializedController ==
    (tool \in LoopTools /\ tpc # "idle") =>
        /\ inits # <<>>
        /\ inits[Len(inits)] # "throws"
        /\ CdpActive \/ PwActive

\* C40: every run of the remediation loop ends with one report, of a success, of a
\* failed fix or of the exhausted iterations, and the report once made is not replaced;
\* the Fix Generator is called only after the failed pass of the iteration in progress,
\* once; and the delay follows an applied fix only.
C40_LoopTerminates ==
    /\ (tool \in SingleTools /\ pc = "loop") ~> Reported
    /\ [](Reported => (Len(report) = 1
                       /\ report[1].kind \in {"success", "fixfailed", "exhausted"}))
    /\ [][(Reported /\ tool' = tool) => report' = report]_vars
    /\ [][fixCalls' > fixCalls =>
            (fixCalls' = passes /\ fixCalls = passes - 1 /\ ~tfResult.success)]_vars
    /\ [](pc = "delay" => (genOutcome = "applied" /\ fixResult.success))

\* A loop ended exhausted after two iterations, each with a failed pass, an applied fix
\* and the delay.
C40_Witness ==
    /\ Reported
    /\ report[1].kind = "exhausted"
    /\ passes = 2
    /\ fixCalls = 2
    /\ genOutcome = "applied"
====
